---- MODULE Spec2Model ----
(***************************************************************************)
(* Tokdash: normalisation and aggregation pipeline.                        *)
(*                                                                         *)
(* The model follows src/src/tokdash: the session-log fold                 *)
(* (sources/openclaw.py), the coding-tool parsers                          *)
(* (sources/coding_tools.py), the pricing resolver (pricing.py), the model *)
(* name normaliser (model_normalization.py) and the aggregation engine     *)
(* (compute.py).                                                           *)
(*                                                                         *)
(* Strings that the code inspects character by character (model names,     *)
(* pricing keys) are sequences of one-character strings.  Python floats    *)
(* are IEEE-754 binary64 values, modelled exactly (sign, exponent and a    *)
(* mantissa of at most 53 bits) so that rounding is part of the model.     *)
(***************************************************************************)
EXTENDS Integers, Sequences, FiniteSets, TLC

(***************************************************************************)
(* Python float: binary64 arithmetic, round-half-to-even.                  *)
(* A value is [neg, e, b]: b holds the mantissa bits, least significant    *)
(* first, with b[1] = 1 and b[Len(b)] = 1; its value is                    *)
(* (-1)^neg * (SUM b[i] * 2^(i-1)) * 2^e.  Zero is the empty mantissa.     *)
(* The exponent range of binary64 is not modelled (costs are far from it). *)
(***************************************************************************)
MANT_DIG == 53

FZero == [neg |-> FALSE, e |-> 0, b |-> <<>>]

Zeros(n) == [i \in 1..n |-> 0]

Bit(b, i) == IF i >= 1 /\ i <= Len(b) THEN b[i] ELSE 0

Max2(a, b) == IF a >= b THEN a ELSE b

\* the recursions below split their index range in halves, so that their
\* depth is logarithmic in the number of bits

\* index of the highest (hi = TRUE) or lowest set bit of b in lo..up, 0 if none
RECURSIVE SetBit(_, _, _, _)
SetBit(b, lo, up, hi) ==
    IF lo > up THEN 0
    ELSE IF lo = up THEN (IF b[lo] = 1 THEN lo ELSE 0)
    ELSE LET mid == (lo + up) \div 2
             first == IF hi THEN SetBit(b, mid + 1, up, hi) ELSE SetBit(b, lo, mid, hi)
         IN IF first # 0 THEN first
            ELSE IF hi THEN SetBit(b, lo, mid, hi) ELSE SetBit(b, mid + 1, up, hi)

\* canonical form of (-1)^neg * bits * 2^e
Dy(neg, e, bits) ==
    LET h == SetBit(bits, 1, Len(bits), TRUE) IN
    IF h = 0 THEN FZero
    ELSE LET l == SetBit(bits, 1, h, FALSE) IN
         [neg |-> neg, e |-> e + l - 1, b |-> SubSeq(bits, l, h)]

\* <<bits lo..up of a + b + c, carry out>>
RECURSIVE AddR(_, _, _, _, _)
AddR(a, b, lo, up, c) ==
    IF lo = up
    THEN LET s == Bit(a, lo) + Bit(b, lo) + c IN <<(<<s % 2>>), s \div 2>>
    ELSE LET mid == (lo + up) \div 2
             L == AddR(a, b, lo, mid, c)
             H == AddR(a, b, mid + 1, up, L[2])
         IN <<L[1] \o H[1], H[2]>>

AddBits(a, b) ==
    LET n == Max2(Len(a), Len(b)) IN
    IF n = 0 THEN <<>>
    ELSE LET r == AddR(a, b, 1, n, 0) IN
         IF r[2] = 1 THEN Append(r[1], 1) ELSE r[1]

\* <<bits lo..up of a - b - c, borrow out>>
RECURSIVE SubR(_, _, _, _, _)
SubR(a, b, lo, up, c) ==
    IF lo = up
    THEN LET s == Bit(a, lo) - Bit(b, lo) - c IN
         <<(<<IF s < 0 THEN s + 2 ELSE s>>), IF s < 0 THEN 1 ELSE 0>>
    ELSE LET mid == (lo + up) \div 2
             L == SubR(a, b, lo, mid, c)
             H == SubR(a, b, mid + 1, up, L[2])
         IN <<L[1] \o H[1], H[2]>>

\* a - b for a >= b > 0
SubBits(a, b) == SubR(a, b, 1, Len(a), 0)[1]

\* -1, 0, 1 as a < b, a = b, a > b on bits lo..up
RECURSIVE CmpR(_, _, _, _)
CmpR(a, b, lo, up) ==
    IF lo = up
    THEN (IF Bit(a, lo) > Bit(b, lo) THEN 1 ELSE IF Bit(a, lo) < Bit(b, lo) THEN -1 ELSE 0)
    ELSE LET mid == (lo + up) \div 2
             H == CmpR(a, b, mid + 1, up)
         IN IF H # 0 THEN H ELSE CmpR(a, b, lo, mid)

CmpBits(a, b) ==
    LET n == Max2(Len(a), Len(b)) IN
    IF n = 0 THEN 0 ELSE CmpR(a, b, 1, n)

FNeg(x) == IF x.b = <<>> THEN x ELSE [x EXCEPT !.neg = ~x.neg]

\* exact sum of two values
DyAdd(x, y) ==
    IF x.b = <<>> THEN y
    ELSE IF y.b = <<>> THEN x
    ELSE LET e == IF x.e < y.e THEN x.e ELSE y.e
             a == Zeros(x.e - e) \o x.b
             b == Zeros(y.e - e) \o y.b
         IN IF x.neg = y.neg
            THEN Dy(x.neg, e, AddBits(a, b))
            ELSE LET c == CmpBits(a, b) IN
                 IF c = 0 THEN FZero
                 ELSE IF c = 1 THEN Dy(x.neg, e, SubBits(a, b))
                 ELSE Dy(y.neg, e, SubBits(b, a))

\* a * (bits lo..up of b, in place)
RECURSIVE MulR(_, _, _, _)
MulR(a, b, lo, up) ==
    IF lo = up
    THEN (IF b[lo] = 1 THEN Zeros(lo - 1) \o a ELSE <<>>)
    ELSE LET mid == (lo + up) \div 2 IN
         AddBits(MulR(a, b, lo, mid), MulR(a, b, mid + 1, up))

\* exact product of two values
DyMul(x, y) ==
    IF x.b = <<>> \/ y.b = <<>> THEN FZero
    ELSE Dy(x.neg # y.neg, x.e + y.e,
            IF Len(x.b) >= Len(y.b) THEN MulR(x.b, y.b, 1, Len(y.b))
            ELSE MulR(y.b, x.b, 1, Len(x.b)))

\* round an exact value to the nearest binary64, ties to even
Round53(x) ==
    IF Len(x.b) <= MANT_DIG THEN x
    ELSE LET k == Len(x.b) - MANT_DIG
             kept == SubSeq(x.b, k + 1, Len(x.b))
             \* x.b[1] = 1: the dropped part is exactly half iff k = 1
             up == x.b[k] = 1 /\ (k > 1 \/ kept[1] = 1)
         IN Dy(x.neg, x.e + k, IF up THEN AddBits(kept, <<1>>) ELSE kept)

Abs(n) == IF n < 0 THEN -n ELSE n

INT_BITS == 31

\* float(n) for an int n
FromInt(n) == Dy(n < 0, 0, [i \in 1..INT_BITS |-> (Abs(n) \div 2^(i - 1)) % 2])

Reverse(s) == [i \in 1..Len(s) |-> s[Len(s) + 1 - i]]

\* long division of bits lo..up of a (highest first) by the positive int d,
\* entered with remainder r: <<quotient bits, highest first, remainder>>
RECURSIVE DivR(_, _, _, _, _)
DivR(a, d, lo, up, r) ==
    IF lo = up
    THEN LET r2 == 2 * r + a[lo]
             q == IF r2 >= d THEN 1 ELSE 0
         IN <<(<<q>>), r2 - q * d>>
    ELSE LET mid == (lo + up) \div 2
             H == DivR(a, d, mid + 1, up, r)
             L == DivR(a, d, lo, mid, H[2])
         IN <<H[1] \o L[1], L[2]>>

DIV_PAD == 86

\* x / d for a float x and a positive int d (d < 2^30), correctly rounded
FDivInt(x, d) ==
    IF x.b = <<>> THEN FZero
    ELSE LET num == Zeros(DIV_PAD) \o x.b
             qr == DivR(num, d, 1, Len(num), 0)
             \* a remainder makes the quotient inexact: one sticky bit below it
             bits == <<IF qr[2] = 0 THEN 0 ELSE 1>> \o Reverse(qr[1])
         IN Round53(Dy(x.neg, x.e - DIV_PAD - 1, bits))

FAdd(x, y) == Round53(DyAdd(x, y))
FMul(x, y) == Round53(DyMul(x, y))
FLess(x, y) == DyAdd(x, FNeg(y)).neg
FPositive(x) == x.b # <<>> /\ ~x.neg

\* the integer nearest to the exact value x, ties to even, as an exact value
RoundToInt(x) ==
    IF x.e >= 0 THEN x
    ELSE LET k == -x.e
             kept == SubSeq(x.b, k + 1, Len(x.b))
             \* x.b[1] = 1: the fraction is exactly one half iff k = 1
             up == Bit(x.b, k) = 1 /\ (k > 1 \/ Bit(kept, 1) = 1)
         IN Dy(x.neg, 0, IF up THEN AddBits(kept, <<1>>) ELSE kept)

\* round(x, ndigits) of a float: the decimal with ndigits places nearest to
\* the exact value of x (ties to even), read back as a float; pow10 = 10^ndigits
FRound(x, pow10) == FDivInt(RoundToInt(DyMul(x, FromInt(pow10))), pow10)

\* sum of the floats fs[1..n], accumulated from the left starting at start
RECURSIVE FSum(_, _, _)
FSum(fs, n, start) == IF n = 0 THEN start ELSE FAdd(FSum(fs, n - 1, start), fs[n])

\* the float written as the decimal literal n/d (d a power of ten)
FLit(n, d) == FDivInt(FromInt(n), d)

(***************************************************************************)
(* Strings: a str is a sequence of one-character strings.                  *)
(***************************************************************************)
UPPER == <<"A", "B", "C", "D", "E", "F", "G", "H", "I", "J", "K", "L", "M",
           "N", "O", "P", "Q", "R", "S", "T", "U", "V", "W", "X", "Y", "Z">>
LOWER == <<"a", "b", "c", "d", "e", "f", "g", "h", "i", "j", "k", "l", "m",
           "n", "o", "p", "q", "r", "s", "t", "u", "v", "w", "x", "y", "z">>
DIGITS == {"0", "1", "2", "3", "4", "5", "6", "7", "8", "9"}
SPACES == {" ", "\t", "\n"}

Range(s) == {s[i] : i \in 1..Len(s)}
IsDigit(c) == c \in DIGITS
\* \w of the re module
IsWord(c) == c \in DIGITS \cup Range(UPPER) \cup Range(LOWER) \cup {"_"}

LowerChar(c) ==
    IF c \in Range(UPPER) THEN LOWER[CHOOSE i \in 1..Len(UPPER) : UPPER[i] = c] ELSE c

\* str.lower()
Lower(s) == [i \in 1..Len(s) |-> LowerChar(s[i])]

MaxOf(S) == CHOOSE x \in S : \A y \in S : y <= x
MinOf(S) == CHOOSE x \in S : \A y \in S : x <= y

\* the characters of s at the positions in keep, in order
AtPositions(s, keep) ==
    [k \in 1..Cardinality(keep) |->
        s[CHOOSE i \in keep : Cardinality({j \in keep : j <= i}) = k]]

\* s with the leading and trailing characters in cs removed
StripChars(s, cs) ==
    LET inner == {i \in 1..Len(s) : s[i] \notin cs} IN
    IF inner = {} THEN <<>> ELSE SubSeq(s, MinOf(inner), MaxOf(inner))

\* str.strip()
Strip(s) == StripChars(s, SPACES)

\* every character of s that is in cs replaced by c
ReplaceChars(s, cs, c) == [i \in 1..Len(s) |-> IF s[i] \in cs THEN c ELSE s[i]]

\* re.sub(r"[cs]+", c, s): every run of characters of cs becomes one c
CollapseRuns(s, cs, c) ==
    LET t == ReplaceChars(s, cs, c)
        keep == {i \in 1..Len(s) : s[i] \notin cs \/ i = 1 \/ s[i - 1] \notin cs}
    IN AtPositions(t, keep)

StartsWith(s, p) == Len(s) >= Len(p) /\ SubSeq(s, 1, Len(p)) = p
EndsWith(s, p) == Len(s) >= Len(p) /\ SubSeq(s, Len(s) - Len(p) + 1, Len(s)) = p
DropFirst(s, n) == SubSeq(s, n + 1, Len(s))
DropLast(s, n) == SubSeq(s, 1, Len(s) - n)
\* p in s
Contains(s, p) == \E i \in 1..(Len(s) - Len(p) + 1) : SubSeq(s, i, i + Len(p) - 1) = p

\* s.split("/")[-1]
LastSegment(s) ==
    LET slashes == {i \in 1..Len(s) : s[i] = "/"} IN
    IF slashes = {} THEN s ELSE DropFirst(s, MaxOf(slashes))

\* s.split("/")[0]
FirstSegment(s) ==
    LET slashes == {i \in 1..Len(s) : s[i] = "/"} IN
    IF slashes = {} THEN s ELSE SubSeq(s, 1, MinOf(slashes) - 1)

\* re.sub(r"^(models?|model)<one of seps>", "", s)
StripModelsPrefix(s, seps) ==
    LET model == <<"m", "o", "d", "e", "l">> IN
    IF StartsWith(s, model) /\ Len(s) >= 7 /\ s[6] = "s" /\ s[7] \in seps THEN DropFirst(s, 7)
    ELSE IF StartsWith(s, model) /\ Len(s) >= 6 /\ s[6] \in seps THEN DropFirst(s, 6)
    ELSE s

\* re.sub(r"-(latest|stable)$", "", s)
StripLatestStable(s) ==
    IF EndsWith(s, <<"-", "l", "a", "t", "e", "s", "t">>) THEN DropLast(s, 7)
    ELSE IF EndsWith(s, <<"-", "s", "t", "a", "b", "l", "e">>) THEN DropLast(s, 7)
    ELSE s

AllDigits(s) == \A i \in 1..Len(s) : IsDigit(s[i])

\* re.sub(r"-(\d{4}-\d{2}-\d{2}|\d{8})$", "", s)
StripDateSuffix(s) ==
    LET n == Len(s) IN
    IF n >= 11 /\ s[n - 10] = "-" /\ AllDigits(SubSeq(s, n - 9, n - 6)) /\ s[n - 5] = "-"
       /\ AllDigits(SubSeq(s, n - 4, n - 3)) /\ s[n - 2] = "-" /\ AllDigits(SubSeq(s, n - 1, n))
    THEN DropLast(s, 11)
    ELSE IF n >= 9 /\ s[n - 8] = "-" /\ AllDigits(SubSeq(s, n - 7, n))
    THEN DropLast(s, 9)
    ELSE s

\* re.sub(r"-thinking$", "", s)
StripThinking(s) ==
    IF EndsWith(s, <<"-", "t", "h", "i", "n", "k", "i", "n", "g">>) THEN DropLast(s, 9) ELSE s

\* re.sub(r"-(\d)-(\d+)", r"-\1.\2", s): a match starts at i when s[i..i+3] is
\* "-d-d"; the scan resumes after a match, so of the candidates that follow
\* each other at distance 2 every second one is a match
VersionHyphenToDot(s) ==
    LET cand(i) == i >= 1 /\ i + 3 <= Len(s) /\ s[i] = "-" /\ IsDigit(s[i + 1])
                   /\ s[i + 2] = "-" /\ IsDigit(s[i + 3])
        before(i) == MaxOf({k \in 0..Len(s) : \A j \in 1..k : cand(i - 2 * j)})
        match(i) == cand(i) /\ before(i) % 2 = 0
    IN [i \in 1..Len(s) |-> IF i >= 3 /\ match(i - 2) THEN "." ELSE s[i]]

(***************************************************************************)
(* model_normalization.py                                                  *)
(***************************************************************************)
UNKNOWN == <<"u", "n", "k", "n", "o", "w", "n">>

\* re.sub(r"-(preview|exp|experimental)(?:-[\w\d]+)?$", "", s): the leftmost
\* position from which the rest of s is "-kw" or "-kw-token"
StripPreviewExp(s) ==
    LET kws == {<<"p", "r", "e", "v", "i", "e", "w">>, <<"e", "x", "p">>, <<"e", "x", "p", "e", "r", "i", "m", "e", "n", "t", "a", "l">>}
        tail(i, kw) == SubSeq(s, i + 1 + Len(kw), Len(s))
        hit(i) == s[i] = "-" /\ \E kw \in kws :
                     /\ StartsWith(DropFirst(s, i), kw)
                     /\ \/ tail(i, kw) = <<>>
                        \/ /\ Len(tail(i, kw)) >= 2
                           /\ tail(i, kw)[1] = "-"
                           /\ \A j \in 2..Len(tail(i, kw)) : IsWord(tail(i, kw)[j])
        hits == {i \in 1..Len(s) : hit(i)}
    IN IF hits = {} THEN s ELSE SubSeq(s, 1, MinOf(hits) - 1)

\* alias_map.get(n, n)
alias_map(n) ==
    IF n \in {<<"g", "e", "m", "i", "n", "i", "-", "3", "-", "p", "r", "o", "-", "h", "i", "g", "h">>, <<"g", "e", "m", "i", "n", "i", "-", "3", "-", "p", "r", "o", "-", "l", "o", "w">>, <<"g", "e", "m", "i", "n", "i", "-", "3", "-", "p", "r", "o", "-", "p", "r", "e", "v", "i", "e", "w">>}
    THEN <<"g", "e", "m", "i", "n", "i", "-", "3", "-", "p", "r", "o">>
    ELSE IF n \in {<<"o", "3", "-", "m", "i", "n", "i", "-", "h", "i", "g", "h">>, <<"o", "3", "-", "m", "i", "n", "i", "-", "l", "o", "w">>} THEN <<"o", "3", "-", "m", "i", "n", "i">>
    ELSE IF n = <<"c", "l", "a", "u", "d", "e", "-", "3", "-", "5", "-", "s", "o", "n", "n", "e", "t">> THEN <<"c", "l", "a", "u", "d", "e", "-", "3", ".", "5", "-", "s", "o", "n", "n", "e", "t">>
    ELSE IF n = <<"c", "l", "a", "u", "d", "e", "-", "3", "-", "7", "-", "s", "o", "n", "n", "e", "t">> THEN <<"c", "l", "a", "u", "d", "e", "-", "3", ".", "7", "-", "s", "o", "n", "n", "e", "t">>
    ELSE IF n \in {<<"k", "2", "p", "5">>, <<"k", "2", "-", "5">>} THEN <<"k", "2", ".", "5">>
    ELSE n

\* re.sub(r"k2(?:p|-)5", "k2.5", s)
KimiDot(s) ==
    [i \in 1..Len(s) |->
        IF i >= 3 /\ i < Len(s) /\ s[i] \in {"p", "-"} /\ s[i - 2] = "k" /\ s[i - 1] = "2"
           /\ s[i + 1] = "5"
        THEN "." ELSE s[i]]

KIMI_K25 == <<"k", "i", "m", "i", "-", "k", "2", ".", "5">>

\* the steps of normalize_model_name after the prefix is stripped, each
\* applied to the result of the one before
AntigravityPrefix(n) == IF StartsWith(n, <<"a", "n", "t", "i", "g", "r", "a", "v", "i", "t", "y", "-">>) THEN DropFirst(n, 12) ELSE n

ClaudeOpusPrefix(n) == IF StartsWith(n, <<"c", "l", "a", "u", "d", "e", "-", "o", "p", "u", "s">>) THEN DropFirst(n, 7) ELSE n

ClaudeFamily(n) ==
    IF (StartsWith(n, <<"o", "p", "u", "s">>) \/ StartsWith(n, <<"s", "o", "n", "n", "e", "t">>)) /\ ~StartsWith(n, <<"c", "l", "a", "u", "d", "e", "-">>)
    THEN <<"c", "l", "a", "u", "d", "e", "-">> \o n ELSE n

KimiExact(n) ==
    IF n \in {<<"k", "2", ".", "5">>, <<"k", "i", "m", "i", "2", ".", "5">>, <<"k", "i", "m", "i", "-", "2", ".", "5">>, <<"k", "i", "m", "i", "-", "k", "2", "p", "5">>, <<"k", "i", "m", "i", "-", "k", "2", "-", "5">>} THEN KIMI_K25 ELSE n

KimiFamily(n) ==
    IF StartsWith(n, <<"k", "i", "m", "i">>)
       /\ (Contains(n, <<"k", "2", ".", "5">>) \/ Contains(n, <<"k", "2", "p", "5">>) \/ Contains(n, <<"k", "2", "-", "5">>)
           \/ Contains(n, <<"2", ".", "5">>))
    THEN KIMI_K25 ELSE n

OrUnknown(n) == IF n = <<>> THEN UNKNOWN ELSE n

\* normalize_model_name from n = name.strip().lower() on
NormalizeLowered(n) ==
    IF n = <<>> THEN UNKNOWN
    ELSE OrUnknown(KimiFamily(KimiExact(KimiDot(ClaudeFamily(ClaudeOpusPrefix(
           VersionHyphenToDot(alias_map(StripThinking(StripDateSuffix(StripPreviewExp(
             StripLatestStable(StripChars(CollapseRuns(CollapseRuns(
               AntigravityPrefix(LastSegment(StripModelsPrefix(
                 ReplaceChars(n, {"\\"}, "/"), {":", "/"}))),
               SPACES \cup {"_"}, "-"), {"-"}, "-"), {"-"})))))))))))))

normalize_model_name(name) == NormalizeLowered(Lower(Strip(name)))

(***************************************************************************)
(* pricing.py: PricingDatabase                                             *)
(* A price record is a function from a subset of the rate names to floats; *)
(* the empty function <<>> stands for None and for an empty record, which  *)
(* the code treats alike ("if p:").                                        *)
(***************************************************************************)
NONE == <<>>

\* dict.get(k, d)
Get(d, k, default) == IF k \in DOMAIN d THEN d[k] ELSE default

\* the pricing table of the fixture: rates per 1,000,000 tokens
pricing ==
    (<<"g", "p", "t", "-", "4", "o", "-", "m", "i", "n", "i">> :> [input |-> FLit(15, 100), output |-> FLit(6, 10)])
    @@ (<<"c", "l", "a", "u", "d", "e", "-", "3", ".", "5", "-", "s", "o", "n", "n", "e", "t">> :>
          [input |-> FromInt(3), output |-> FromInt(15),
           cache_read |-> FLit(3, 10), cache_write |-> FLit(375, 100)])
    @@ (<<"k", "i", "m", "i", "-", "k", "2", ".", "5">> :> [input |-> FLit(6, 10), output |-> FromInt(3), cache_read |-> FLit(1, 10)])
    @@ (<<"g", "p", "t", "-", "5", ".", "3", "-", "c", "o", "d", "e", "x">> :> [input |-> FLit(175, 100), output |-> FromInt(14)])
    @@ (<<"m", "i", "n", "i", "m", "a", "x", "-", "m", "2", ".", "5">> :> [input |-> FLit(3, 10), output |-> FLit(12, 10)])
    @@ (<<"a", "z", "u", "r", "e", "/", "g", "p", "t", "-", "4", "o", "-", "m", "i", "n", "i">> :> [input |-> FLit(165, 1000), output |-> FLit(66, 100)])
    @@ (<<"s", "o", "n", "i", "c", "-", "1">> :> [input |-> FromInt(1), output |-> FromInt(4)])
    @@ (<<"s", "o", "n", "i", "c", "-", "2", "-", "l", "a", "t", "e", "s", "t">> :> [input |-> FromInt(2), output |-> FromInt(8)])

\* the "aliases" object of the fixture, in file order
aliases_raw ==
    << <<<<"v", "o", "l", "-", "e", "n", "g", "i", "n", "e", "/", "k", "i", "m", "i", "-", "2", ".", "5">>, <<"k", "i", "m", "i", "-", "k", "2", ".", "5">>>>,
       <<<<"G", "i", "t", "H", "u", "b", "-", "C", "o", "p", "i", "l", "o", "t", "/", "C", "l", "a", "u", "d", "e", "_", "S", "o", "n", "n", "e", "t", "_", "3", ".", "5">>, <<"C", "l", "a", "u", "d", "e", "-", "3", ".", "5", "-", "S", "o", "n", "n", "e", "t">>>>,
       <<<<"s", "o", "n", "i", "c", "-", "1", "-", "l", "a", "t", "e", "s", "t">>, <<"g", "p", "t", "-", "4", "o", "-", "m", "i", "n", "i">>>>,
       <<<<"s", "o", "n", "i", "c", "-", "2", "-", "l", "a", "t", "e", "s", "t">>, <<"g", "p", "t", "-", "4", "o", "-", "m", "i", "n", "i">>>>,
       <<<<"a", "c", "m", "e", "/", "s", "o", "n", "i", "c", "-", "1">>, <<"g", "p", "t", "-", "4", "o", "-", "m", "i", "n", "i">>>> >>

_normalize_key(s) ==
    LET s0 == Lower(Strip(s))
        s1 == ReplaceChars(s0, {"\\"}, "/")
        s2 == StripModelsPrefix(s1, {":", "/"})
        s3 == LastSegment(s2)
        s4 == CollapseRuns(s3, SPACES \cup {"_"}, "-")
    IN StripChars(CollapseRuns(s4, {"-"}, "-"), {"-"})

_normalize_alias_key(s) ==
    LET s0 == Lower(Strip(s))
        s1 == ReplaceChars(s0, {"\\"}, "/")
        s2 == StripModelsPrefix(s1, {":"})
        s3 == CollapseRuns(s2, SPACES \cup {"_"}, "-")
    IN StripChars(CollapseRuns(s3, {"-"}, "-"), {"-"})

\* _strip_common_suffixes with the fault of stripping nothing
KeepSuffixes(key) == key

_strip_common_suffixes(key) == StripThinking(StripDateSuffix(StripLatestStable(key)))

_version_hyphen_to_dot(key) == VersionHyphenToDot(key)

KIMI_PAIR == <<<<"k", "2", "p", "5">>, <<"k", "i", "m", "i", "-", "k", "2", ".", "5">>>>

\* _kimi_aliases with the fault of knowing no Kimi spelling
NoKimiAliases(k) == <<>>

_kimi_aliases(k) ==
    IF k \in {<<"k", "2", ".", "5">>, <<"k", "2", "-", "5">>, <<"k", "2", "p", "5">>, <<"k", "i", "m", "i", "2", ".", "5">>, <<"k", "i", "m", "i", "-", "k", "2", "p", "5">>, <<"k", "i", "m", "i", "-", "k", "2", "-", "5">>}
    THEN KIMI_PAIR
    ELSE IF StartsWith(k, <<"k", "i", "m", "i">>)
            /\ (Contains(k, <<"k", "2", ".", "5">>) \/ Contains(k, <<"k", "2", "p", "5">>) \/ Contains(k, <<"k", "2", "-", "5">>))
    THEN KIMI_PAIR
    ELSE <<>>

\* load(): the alias dict built from the first n entries of aliases_raw
RECURSIVE AliasesUpTo(_)
AliasesUpTo(n) ==
    IF n = 0 THEN <<>>
    ELSE LET prev == AliasesUpTo(n - 1)
             nk == _normalize_alias_key(aliases_raw[n][1])
             nv == _normalize_key(aliases_raw[n][2])
         IN IF nk = <<>> \/ nv = <<>> THEN prev
            ELSE LET set == (nk :> nv) @@ prev
                     b == LastSegment(nk)
                 IN IF b \in DOMAIN set THEN set ELSE (b :> nv) @@ set

aliases == AliasesUpTo(Len(aliases_raw))

\* consider(k): self.pricing.get(k), None for an empty key
consider(k) == IF k = <<>> THEN NONE ELSE Get(pricing, k, NONE)

\* the first element of found that is not NONE, NONE if there is none
FirstFound(found) ==
    IF \A i \in 1..Len(found) : found[i] = NONE THEN NONE
    ELSE found[MinOf({i \in 1..Len(found) : found[i] # NONE})]

\* the record of the first candidate that hits, NONE if none does
FirstHit(cands) == FirstFound([i \in 1..Len(cands) |-> consider(cands[i])])

\* k, its suffix-stripped form, its dotted form, both
Variants(k) ==
    IF k = <<>> THEN <<>>
    ELSE <<k, _strip_common_suffixes(k), _version_hyphen_to_dot(k),
           _version_hyphen_to_dot(_strip_common_suffixes(k))>>

\* the alias targets of the variants, in order (a variant without target is skipped)
AliasTargets(vs) == [i \in 1..Len(vs) |-> IF vs[i] = <<>> THEN <<>> ELSE Get(aliases, vs[i], <<>>)]

Expanded(k) ==
    IF k = <<>> THEN <<>>
    ELSE Variants(k)
         \o (IF StartsWith(k, <<"a", "n", "t", "i", "g", "r", "a", "v", "i", "t", "y", "-">>) THEN Variants(DropFirst(k, 12)) ELSE <<>>)
         \o _kimi_aliases(k)
         \o _kimi_aliases(_strip_common_suffixes(k))

\* raw.split("/")[-1] if "/" in raw else raw, or raw when that is empty
BaseOf(raw) ==
    IF Contains(raw, <<"/">>) /\ LastSegment(raw) # <<>> THEN LastSegment(raw) ELSE raw

\* ResolveKeys with the fault of trying the normalised forms before the
\* alias table
ResolveNormalizedFirst(raw, base, nraw, nbase) ==
    FirstHit(<<raw, base>>
             \o Expanded(nraw) \o Expanded(nbase)
             \o AliasTargets(Variants(raw) \o Variants(base)
                             \o Variants(_normalize_alias_key(raw))
                             \o Variants(_normalize_alias_key(base))
                             \o Variants(nraw) \o Variants(nbase)))

\* the lookup, given the name, its base and the normalised keys of both:
\* candidates are tried in the order direct keys, alias targets, normalised
\* forms; the "seen" set only skips keys that already missed
ResolveKeys(raw, base, nraw, nbase) ==
    FirstHit(<<raw, base>>
             \o AliasTargets(Variants(raw) \o Variants(base)
                             \o Variants(_normalize_alias_key(raw))
                             \o Variants(_normalize_alias_key(base))
                             \o Variants(nraw) \o Variants(nbase))
             \o Expanded(nraw) \o Expanded(nbase))

ResolveBase(raw, base) == ResolveKeys(raw, base, _normalize_key(raw), _normalize_key(base))

\* _resolve_pricing without its memo
_resolve_pricing(model) == ResolveBase(model, BaseOf(model))

\* the model names the logs of the model carry, as the code hands them to
\* _resolve_pricing
KNOWN_MODELS ==
    {<<"a", "z", "u", "r", "e", "/", "g", "p", "t", "-", "4", "o", "-", "m", "i", "n", "i">>, <<"s", "o", "n", "i", "c", "-", "1">>, <<"s", "o", "n", "i", "c", "-", "1", "-", "l", "a", "t", "e", "s", "t">>, <<"s", "o", "n", "i", "c", "-", "2", "-", "l", "a", "t", "e", "s", "t">>, <<"a", "c", "m", "e", "/", "s", "o", "n", "i", "c", "-", "1">>,
     <<"A", "z", "u", "r", "e", "/", "S", "o", "n", "i", "c", "-", "1", "-", "L", "a", "t", "e", "s", "t">>,
     <<"o", "p", "e", "n", "a", "i", "/", "g", "p", "t", "-", "4", "o", "-", "m", "i", "n", "i">>, <<"m", "y", "s", "t", "e", "r", "y">>, <<"a", "n", "t", "h", "r", "o", "p", "i", "c", "/", "c", "l", "a", "u", "d", "e", "-", "3", "-", "5", "-", "s", "o", "n", "n", "e", "t">>,
     <<"g", "p", "t", "-", "5", ".", "3", "-", "c", "o", "d", "e", "x">>, <<"o", "p", "e", "n", "a", "i", "/", "g", "p", "t", "-", "5", ".", "3", "-", "c", "o", "d", "e", "x">>, <<"c", "l", "a", "u", "d", "e", "-", "3", "-", "5", "-", "s", "o", "n", "n", "e", "t">>,
     <<"k", "i", "m", "i", "-", "k", "2", "p", "5">>, <<"M", "o", "o", "n", "s", "h", "o", "t", "A", "I", "/", "k", "i", "m", "i", "-", "k", "2", "p", "5">>, <<"a", "n", "t", "h", "r", "o", "p", "i", "c", "/", "m", "y", "s", "t", "e", "r", "y">>,
     <<"g", "p", "t", "-", "4", "o", "-", "m", "i", "n", "i">>, <<"m", "6">>, <<"m", "7">>,
     <<"m", "i", "n", "i", "m", "a", "x", "/", "M", "i", "n", "i", "M", "a", "x", "-", "M", "2", ".", "5">>,
     <<"M", "I", "N", "I", "M", "A", "X", "-", "M", "2", ".", "5">>,
     <<"M", "i", "n", "i", "m", "a", "x", "-", "M", "2", ".", "5">>,
     <<"m", "i", "n", "i", "m", "a", "x", "-", "m", "2", ".", "5", "-", "2", "0", "2", "4", "-", "0", "7", "-", "1", "8">>,
     <<"m", "i", "n", "i", "m", "a", "x", "-", "m", "2", ".", "5", "-", "2", "0", "2", "4", "0", "7", "1", "8">>,
     <<"m", "i", "n", "i", "m", "a", "x", "/", "M", "i", "n", "i", "m", "a", "x", "-", "M", "2", ".", "5", "-", "2", "0", "2", "4", "-", "0", "7", "-", "1", "8">>,
     <<"m", "i", "n", "i", "m", "a", "x", "-", "m", "2", ".", "5">>,
     <<"C", "L", "A", "U", "D", "E", "-", "3", ".", "5", "-", "S", "O", "N", "N", "E", "T">>,
     <<"C", "l", "a", "u", "d", "e", "-", "3", ".", "5", "-", "S", "o", "n", "n", "e", "t">>,
     <<"G", "P", "T", "-", "4", "O", "-", "M", "I", "N", "I">>,
     <<"G", "P", "T", "-", "5", ".", "3", "-", "C", "O", "D", "E", "X">>,
     <<"G", "p", "t", "-", "4", "O", "-", "M", "i", "n", "i">>,
     <<"G", "p", "t", "-", "5", ".", "3", "-", "C", "o", "d", "e", "x">>,
     <<"K", "I", "M", "I", "-", "K", "2", ".", "5">>,
     <<"K", "i", "m", "i", "-", "K", "2", ".", "5">>,
     <<"M", "o", "o", "n", "s", "h", "o", "t", "A", "I", "/", "K", "I", "M", "I", "_", "K", "2", "P", "5">>,
     <<"a", "n", "t", "h", "r", "o", "p", "i", "c", "/", "C", "l", "a", "u", "d", "e", "-", "3", ".", "5", "-", "S", "o", "n", "n", "e", "t", "-", "2", "0", "2", "4", "-", "0", "7", "-", "1", "8">>,
     <<"a", "n", "t", "h", "r", "o", "p", "i", "c", "/", "c", "l", "a", "u", "d", "e", "-", "3", ".", "5", "-", "s", "o", "n", "n", "e", "t">>,
     <<"c", "l", "a", "u", "d", "e", "-", "3", ".", "5", "-", "s", "o", "n", "n", "e", "t">>,
     <<"c", "l", "a", "u", "d", "e", "-", "3", ".", "5", "-", "s", "o", "n", "n", "e", "t", "-", "2", "0", "2", "4", "-", "0", "7", "-", "1", "8">>,
     <<"c", "l", "a", "u", "d", "e", "-", "3", ".", "5", "-", "s", "o", "n", "n", "e", "t", "-", "2", "0", "2", "4", "0", "7", "1", "8">>,
     <<"g", "p", "t", "-", "4", "o", "-", "m", "i", "n", "i", "-", "2", "0", "2", "4", "-", "0", "7", "-", "1", "8">>,
     <<"g", "p", "t", "-", "4", "o", "-", "m", "i", "n", "i", "-", "2", "0", "2", "4", "0", "7", "1", "8">>,
     <<"g", "p", "t", "-", "5", ".", "3", "-", "c", "o", "d", "e", "x", "-", "2", "0", "2", "4", "-", "0", "7", "-", "1", "8">>,
     <<"g", "p", "t", "-", "5", ".", "3", "-", "c", "o", "d", "e", "x", "-", "2", "0", "2", "4", "0", "7", "1", "8">>,
     <<"k", "2", ".", "5">>,
     <<"k", "i", "m", "i", "-", "k", "2", ".", "5">>,
     <<"k", "i", "m", "i", "-", "k", "2", ".", "5", "-", "2", "0", "2", "4", "-", "0", "7", "-", "1", "8">>,
     <<"k", "i", "m", "i", "-", "k", "2", ".", "5", "-", "2", "0", "2", "4", "0", "7", "1", "8">>,
     <<"m", "o", "o", "n", "s", "h", "o", "t", "a", "i", "/", "K", "i", "m", "i", "-", "K", "2", ".", "5", "-", "2", "0", "2", "4", "-", "0", "7", "-", "1", "8">>,
     <<"m", "o", "o", "n", "s", "h", "o", "t", "a", "i", "/", "k", "i", "m", "i", "-", "k", "2", ".", "5">>,
     <<"o", "p", "e", "n", "a", "i", "/", "G", "p", "t", "-", "4", "O", "-", "M", "i", "n", "i", "-", "2", "0", "2", "4", "-", "0", "7", "-", "1", "8">>,
     <<"o", "p", "e", "n", "a", "i", "/", "G", "p", "t", "-", "5", ".", "3", "-", "C", "o", "d", "e", "x", "-", "2", "0", "2", "4", "-", "0", "7", "-", "1", "8">>,
     <<"o", "p", "e", "n", "a", "i", "/", "g", "p", "t", "-", "4", "o", "-", "m", "i", "n", "i">>,
     <<"o", "p", "e", "n", "a", "i", "/", "g", "p", "t", "-", "5", ".", "3", "-", "c", "o", "d", "e", "x">>,
     <<"v", "o", "l", "-", "e", "n", "g", "i", "n", "e", "/", "k", "i", "m", "i", "-", "2", ".", "5">>}

\* self._resolved_cache once each known name has been resolved
_resolved_cache == {<<m, _resolve_pricing(m)>> : m \in KNOWN_MODELS}

\* the cached value of model when the cache holds one, else the lookup
CacheOr(cache, model) ==
    IF \E c \in cache : c[1] = model
    THEN (CHOOSE c \in cache : c[1] = model)[2]
    ELSE _resolve_pricing(model)

\* _resolve_pricing(model) as callers see it
Resolve(model) == CacheOr(_resolved_cache, model)

\* float(pricing.get(k, default) or 0.0)
Rate(p, k, default) == Get(p, k, default)

\* CostAtRates with the fault of charging cache writes at the input rate on
\* top of the cache-write rate
CostChargingWritesTwice(input_tokens, output_tokens, cache_read, cache_write, input_rate, output_rate, cache_read_rate, cache_write_rate) ==
    FDivInt(
      FAdd(FAdd(FAdd(FMul(FromInt(input_tokens + cache_write), input_rate),
                     FMul(FromInt(output_tokens), output_rate)),
                FMul(FromInt(cache_read), cache_read_rate)),
           FMul(FromInt(cache_write), cache_write_rate)),
      1000000)

\* the sum of get_cost, given the four rates
CostAtRates(input_tokens, output_tokens, cache_read, cache_write, input_rate, output_rate, cache_read_rate, cache_write_rate) ==
    FDivInt(
      FAdd(FAdd(FAdd(FMul(FromInt(input_tokens), input_rate),
                     FMul(FromInt(output_tokens), output_rate)),
                FMul(FromInt(cache_read), cache_read_rate)),
           FMul(FromInt(cache_write), cache_write_rate)),
      1000000)

\* the rates of get_cost, given the input rate their defaults rest on
CostAtInputRate(p, input_rate, input_tokens, output_tokens, cache_read, cache_write) ==
    CostAtRates(input_tokens, output_tokens, cache_read, cache_write,
                input_rate,
                Rate(p, "output", FZero),
                Rate(p, "cache_read", FMul(input_rate, FLit(1, 10))),
                Rate(p, "cache_write", input_rate))

\* get_cost once the price record p is resolved
CostOfRecord(p, input_tokens, output_tokens, cache_read, cache_write) ==
    IF p = NONE THEN FZero
    ELSE CostAtInputRate(p, Rate(p, "input", FZero),
                         input_tokens, output_tokens, cache_read, cache_write)

\* the body of get_cost
CostOfModel(model, input_tokens, output_tokens, cache_read, cache_write) ==
    CostOfRecord(Resolve(model), input_tokens, output_tokens, cache_read, cache_write)

\* the calls of get_cost that the logs of the model lead to
COST_CALLS ==
    {<<<<"o", "p", "e", "n", "a", "i", "/", "g", "p", "t", "-", "4", "o", "-", "m", "i", "n", "i">>, 1000, 2, 4, 3>>,
     <<<<"o", "p", "e", "n", "a", "i", "/", "g", "p", "t", "-", "4", "o", "-", "m", "i", "n", "i">>, 5, 7, 13, 11>>,
     <<<<"m", "y", "s", "t", "e", "r", "y">>, 1, 0, 0, 0>>,
     <<<<"m", "y", "s", "t", "e", "r", "y">>, 0, 2, 0, 0>>,
     <<<<"m", "y", "s", "t", "e", "r", "y">>, 0, 0, 0, 0>>,
     <<<<"g", "p", "t", "-", "5", ".", "3", "-", "c", "o", "d", "e", "x">>, 6, 3, 4, 0>>,
     <<<<"o", "p", "e", "n", "a", "i", "/", "g", "p", "t", "-", "5", ".", "3", "-", "c", "o", "d", "e", "x">>, 6, 3, 4, 0>>,
     <<<<"g", "p", "t", "-", "4", "o", "-", "m", "i", "n", "i">>, 6, 3, 4, 0>>,
     <<<<"o", "p", "e", "n", "a", "i", "/", "g", "p", "t", "-", "4", "o", "-", "m", "i", "n", "i">>, 6, 3, 4, 0>>,
     <<<<"g", "p", "t", "-", "5", ".", "3", "-", "c", "o", "d", "e", "x">>, 2, 0, 0, 0>>,
     <<<<"C", "L", "A", "U", "D", "E", "-", "3", ".", "5", "-", "S", "O", "N", "N", "E", "T">>, 6, 3, 4, 0>>,
     <<<<"m", "y", "s", "t", "e", "r", "y">>, 6, 3, 4, 0>>,
     <<<<"o", "p", "e", "n", "a", "i", "/", "g", "p", "t", "-", "5", ".", "3", "-", "c", "o", "d", "e", "x">>, 2, 0, 0, 0>>,
     <<<<"c", "l", "a", "u", "d", "e", "-", "3", "-", "5", "-", "s", "o", "n", "n", "e", "t">>, 7, 1, 0, 0>>,
     <<<<"a", "n", "t", "h", "r", "o", "p", "i", "c", "/", "c", "l", "a", "u", "d", "e", "-", "3", "-", "5", "-", "s", "o", "n", "n", "e", "t">>, 7, 1, 0, 0>>,
     <<<<"c", "l", "a", "u", "d", "e", "-", "3", "-", "5", "-", "s", "o", "n", "n", "e", "t">>, 3, 0, 0, 0>>,
     <<<<"a", "n", "t", "h", "r", "o", "p", "i", "c", "/", "c", "l", "a", "u", "d", "e", "-", "3", "-", "5", "-", "s", "o", "n", "n", "e", "t">>, 3, 0, 0, 0>>,
     <<<<"k", "i", "m", "i", "-", "k", "2", "p", "5">>, 5, 0, 0, 0>>,
     <<<<"M", "o", "o", "n", "s", "h", "o", "t", "A", "I", "/", "k", "i", "m", "i", "-", "k", "2", "p", "5">>, 5, 0, 0, 0>>,
     <<<<"m", "y", "s", "t", "e", "r", "y">>, 5, 0, 0, 0>>,
     <<<<"a", "n", "t", "h", "r", "o", "p", "i", "c", "/", "c", "l", "a", "u", "d", "e", "-", "3", "-", "5", "-", "s", "o", "n", "n", "e", "t">>, 1000, 2, 4, 0>>,
     <<<<"g", "p", "t", "-", "4", "o", "-", "m", "i", "n", "i">>, 1000, 2, 0, 0>>,
     <<<<"c", "l", "a", "u", "d", "e", "-", "3", "-", "5", "-", "s", "o", "n", "n", "e", "t">>, 1000, 2, 4, 0>>,
     <<<<"m", "6">>, 0, 2, 0, 0>>,
     <<<<"m", "7">>, 1, 0, 0, 0>>}

\* their results, computed once
COSTS == {<<c, CostOfModel(c[1], c[2], c[3], c[4], c[5])>> : c \in COST_CALLS}

\* the result of the call from the table when it is one of COST_CALLS
CostOfCall(call, costs) ==
    IF \E c \in costs : c[1] = call
    THEN (CHOOSE c \in costs : c[1] = call)[2]
    ELSE CostOfModel(call[1], call[2], call[3], call[4], call[5])

get_cost(model, input_tokens, output_tokens, cache_read, cache_write) ==
    CostOfCall(<<model, input_tokens, output_tokens, cache_read, cache_write>>, COSTS)

(***************************************************************************)
(* Time.  An instant is a tick >= 1 of the UTC clock; 0 stands for None    *)
(* (an absent bound, an absent or unparseable timestamp).  The local zone  *)
(* is UTC; a calendar date is the number of its day.                       *)
(***************************************************************************)
TICKS_PER_DAY == 2

\* dt.astimezone().strftime("%Y-%m-%d")
DateOf(ts) == ts \div TICKS_PER_DAY

(***************************************************************************)
(* sources/openclaw.py                                                     *)
(* A line of a session file is a record: json tells whether the line       *)
(* parses ("invalid"), parses to a value that is not an object ("scalar")  *)
(* or to an object; msg and usage.kind tell whether the field is absent or *)
(* falsy ("absent"), a non-mapping value ("nonmap") or a mapping ("map");  *)
(* usage.d is the usage mapping itself.                                    *)
(***************************************************************************)
\* a or b
PyOr(a, b) == IF a # 0 THEN a ELSE b

\* _i(v) for an int v
_i(v) == IF v # 0 THEN v ELSE 0

\* _parse_message_datetime(ts): None for a missing or unparseable timestamp
_parse_message_datetime(ts) == IF ts <= 0 THEN 0 ELSE ts

IsFloat(v) == "b" \in DOMAIN v
\* truth value of a float or a dict
Truthy(v) == IF IsFloat(v) THEN v.b # <<>> ELSE DOMAIN v # {}

\* a or b or 0.0
FirstTruthy(a, b) == IF Truthy(a) THEN a ELSE IF Truthy(b) THEN b ELSE FZero

\* the float of cost_data, a float or a dict
CostOfData(cost_data) ==
    IF IsFloat(cost_data) THEN cost_data
    ELSE FirstTruthy(Get(cost_data, "total", FZero), Get(cost_data, "value", FZero))

_usage_cost_from_payload(usage) ==
    CostOfData(FirstTruthy(Get(usage, "cost", FZero), Get(usage, "totalCost", FZero)))

\* parse_session_file over the files that pass the mtime check, in order
RECURSIVE SessionEntries(_, _, _)
SessionEntries(files, n, since_date) ==
    IF n = 0 THEN <<>>
    ELSE SessionEntries(files, n - 1, since_date)
         \o (IF since_date # 0 /\ files[n].mtime < since_date THEN <<>>
             ELSE SelectSeq(files[n].lines, LAMBDA l : l.json # "invalid"))

\* what the loop body of get_session_usage does with an entry:
\* "raise" (AttributeError), "skip", "count" (counted, no usage) or "fold"
SessionStep(entry, since_date, until_date) ==
    IF entry.json = "scalar" THEN "raise"
    ELSE IF entry.type # "message" THEN "skip"
    ELSE IF entry.msg = "nonmap" THEN "raise"
    ELSE IF entry.msg = "absent" \/ entry.role # "assistant" THEN "skip"
    ELSE LET msg_dt == _parse_message_datetime(entry.ts) IN
         IF msg_dt = 0 THEN "skip"
         ELSE IF since_date # 0 /\ msg_dt < since_date THEN "skip"
         ELSE IF until_date # 0 /\ msg_dt > until_date THEN "skip"
         ELSE IF entry.usage.kind = "absent" THEN "count"
         ELSE IF entry.usage.kind = "nonmap" THEN "raise"
         ELSE IF DOMAIN entry.usage.d = {} THEN "count"
         ELSE "fold"

SessionModel(entry) ==
    LET provider == IF entry.provider = <<>> THEN UNKNOWN ELSE entry.provider
        model_id == IF entry.model = <<>> THEN UNKNOWN ELSE entry.model
    IN IF provider # UNKNOWN THEN provider \o <<"/">> \o model_id ELSE model_id

\* PreferPriced with the fault of never falling back to the payload
TableOnly(cost_db, usage) == cost_db

\* cost_db if cost_db > 0.0 else _usage_cost_from_payload(usage)
PreferPriced(cost_db, usage) ==
    IF FPositive(cost_db) THEN cost_db ELSE _usage_cost_from_payload(usage)

\* Figures with the fault of counting cache writes as no tokens at all
FiguresWithoutCacheWrite(model, date, tokens_input_raw, tokens_cache_write, tokens_out, tokens_cache_read, usage) ==
    [model |-> model,
     date |-> date,
     tokens_in |-> tokens_input_raw,
     tokens_out |-> tokens_out,
     tokens_cache |-> tokens_cache_read,
     tokens_total |-> tokens_input_raw + tokens_out + tokens_cache_read,
     cost |-> IF FPositive(get_cost(model, tokens_input_raw, tokens_out, tokens_cache_read,
                                    tokens_cache_write))
              THEN get_cost(model, tokens_input_raw, tokens_out, tokens_cache_read,
                            tokens_cache_write)
              ELSE _usage_cost_from_payload(usage)]

\* the figures of one message, given its model, date and raw counts
Figures(model, date, tokens_input_raw, tokens_cache_write, tokens_out, tokens_cache_read, usage) ==
    [model |-> model,
     date |-> date,
     tokens_in |-> tokens_input_raw + tokens_cache_write,
     tokens_out |-> tokens_out,
     tokens_cache |-> tokens_cache_read,
     tokens_total |-> tokens_input_raw + tokens_cache_write + tokens_out + tokens_cache_read,
     cost |-> PreferPriced(get_cost(model, tokens_input_raw, tokens_out, tokens_cache_read,
                                    tokens_cache_write), usage)]

\* _i(usage.get(key, 0) or usage.get(alias, 0) or 0)
Count(usage, key, alias) == _i(PyOr(Get(usage, key, 0), Get(usage, alias, 0)))

\* the per-message figures computed in the loop body
SessionFigures(entry) ==
    Figures(SessionModel(entry), DateOf(_parse_message_datetime(entry.ts)),
            Count(entry.usage.d, "input", "inputTokens"),
            Count(entry.usage.d, "cacheWrite", "cacheWriteTokens"),
            Count(entry.usage.d, "output", "outputTokens"),
            Count(entry.usage.d, "cacheRead", "cacheReadTokens"),
            entry.usage.d)

ZeroStats == [tokens_in |-> 0, tokens_out |-> 0, tokens_cache |-> 0, tokens_total |-> 0,
              cost |-> FZero, messages |-> 0]

\* stats += the figures of one message
AddFigures(stats, f) ==
    [tokens_in |-> stats.tokens_in + f.tokens_in,
     tokens_out |-> stats.tokens_out + f.tokens_out,
     tokens_cache |-> stats.tokens_cache + f.tokens_cache,
     tokens_total |-> stats.tokens_total + f.tokens_total,
     cost |-> FAdd(stats.cost, f.cost),
     messages |-> stats.messages + 1]

\* d[key] += f for a defaultdict d kept as a sequence of <<key, stats>> in
\* insertion order
Accumulate(d, key, f) ==
    IF \E i \in 1..Len(d) : d[i][1] = key
    THEN [i \in 1..Len(d) |-> IF d[i][1] = key THEN <<key, AddFigures(d[i][2], f)>> ELSE d[i]]
    ELSE Append(d, <<key, AddFigures(ZeroStats, f)>>)

\* daily_contribs[date] += f, and its sources[model] += f; a day is
\* <<date, stats, sources>>
AccumulateDay(days, f) ==
    IF \E i \in 1..Len(days) : days[i][1] = f.date
    THEN [i \in 1..Len(days) |->
            IF days[i][1] = f.date
            THEN <<f.date, AddFigures(days[i][2], f), Accumulate(days[i][3], f.model, f)>>
            ELSE days[i]]
    ELSE Append(days, <<f.date, AddFigures(ZeroStats, f), Accumulate(<<>>, f.model, f)>>)

\* the loop state after a message with figures f
AddMessage(acc, f) ==
    [model_stats |-> Accumulate(acc.model_stats, f.model, f),
     daily_contribs |-> AccumulateDay(acc.daily_contribs, f),
     total_messages |-> acc.total_messages + 1]

\* the loop state after an entry, step being what the body does with it
FoldEntry(acc, entry, step) ==
    IF step \in {"skip", "raise"} THEN acc
    ELSE IF step = "count" THEN [acc EXCEPT !.total_messages = @ + 1]
    ELSE AddMessage(acc, SessionFigures(entry))

\* the state of the loop of get_session_usage after the first n entries
RECURSIVE SessionFold(_, _, _, _)
SessionFold(entries, n, since_date, until_date) ==
    IF n = 0 THEN [model_stats |-> <<>>, daily_contribs |-> <<>>, total_messages |-> 0]
    ELSE FoldEntry(SessionFold(entries, n - 1, since_date, until_date), entries[n],
                   SessionStep(entries[n], since_date, until_date))

\* s ordered by ascending key(s[i]), the keys being distinct ints
SortedByKey(s, key(_)) ==
    [k \in 1..Len(s) |->
        s[CHOOSE i \in 1..Len(s) : Cardinality({j \in 1..Len(s) : key(s[j]) < key(s[i])}) = k - 1]]

SumInts(s, val(_)) ==
    LET RECURSIVE upto(_)
        upto(n) == IF n = 0 THEN 0 ELSE upto(n - 1) + val(s[n])
    IN upto(Len(s))

SessionModelRow(m) ==
    [name |-> m[1],
     tokens |-> m[2].tokens_in + m[2].tokens_out + m[2].tokens_cache,
     tokens_in |-> m[2].tokens_in,
     tokens_out |-> m[2].tokens_out,
     tokens_cache |-> m[2].tokens_cache,
     cost |-> m[2].cost,
     messages |-> m[2].messages]

SessionSource(src) ==
    [source |-> <<"o", "p", "e", "n", "c", "l", "a", "w">>,
     modelId |-> src[1],
     providerId |-> IF Contains(src[1], <<"/">>) THEN FirstSegment(src[1]) ELSE UNKNOWN,
     tokens |-> [input |-> src[2].tokens_in, output |-> src[2].tokens_out,
                 cacheRead |-> src[2].tokens_cache, cacheWrite |-> 0, reasoning |-> 0],
     cost |-> src[2].cost,
     messages |-> src[2].messages]

USD_MICRO == 1000000

SessionContribution(day) ==
    [date |-> day[1],
     totals |-> [tokens |-> day[2].tokens_total,
                 cost |-> FRound(day[2].cost, USD_MICRO),
                 messages |-> day[2].messages],
     intensity |-> 0,
     tokenBreakdown |-> [input |-> day[2].tokens_in, output |-> day[2].tokens_out,
                         cacheRead |-> day[2].tokens_cache, cacheWrite |-> 0, reasoning |-> 0],
     sources |-> [i \in 1..Len(day[3]) |-> SessionSource(day[3][i])]]

\* the outcome of a call that ended in an uncaught exception
RAISED == [raised |-> TRUE]

\* the report built from the model rows, the sorted days and the count
SessionReport(models, days, total_messages) ==
    [raised |-> FALSE,
     total_tokens |-> SumInts(models, LAMBDA m : m.tokens),
     total_cost |-> FSum([i \in 1..Len(models) |-> models[i].cost], Len(models), FZero),
     total_messages |-> total_messages,
     models |-> models,
     contributions |-> [i \in 1..Len(days) |-> SessionContribution(days[i])]]

\* the report built from the final state of the loop
ReportOf(acc) ==
    SessionReport([i \in 1..Len(acc.model_stats) |-> SessionModelRow(acc.model_stats[i])],
                  SortedByKey(acc.daily_contribs, LAMBDA d : d[1]),
                  acc.total_messages)

\* get_session_usage over the parsed entries
UsageOfEntries(entries, since_date, until_date) ==
    IF \E i \in 1..Len(entries) : SessionStep(entries[i], since_date, until_date) = "raise"
    THEN RAISED
    ELSE ReportOf(SessionFold(entries, Len(entries), since_date, until_date))

get_session_usage(files, since_date, until_date) ==
    UsageOfEntries(SessionEntries(files, Len(files), since_date), since_date, until_date)

(***************************************************************************)
(* sources/coding_tools.py                                                 *)
(* An entry's timestamp is in milliseconds.  A line of a Codex or Claude   *)
(* log carries json as a session line does; payload.kind, msg.kind and     *)
(* usage.kind are "absent" (missing, or a value the code replaces by {}),  *)
(* "nonmap" (a non-mapping value the code goes on to use) or "map".        *)
(***************************************************************************)
MS == 1000

\* _in_range with the fault of including the upper bound
InRangeClosed(ts, since_date, until_date) ==
    /\ ts # 0
    /\ ~(since_date # 0 /\ ts < since_date)
    /\ ~(until_date # 0 /\ ts > until_date)

\* BaseParser._in_range(ts, since_date, until_date), all three in UTC
_in_range(ts, since_date, until_date) ==
    /\ ts # 0
    /\ ~(since_date # 0 /\ ts < since_date)
    /\ ~(until_date # 0 /\ ts >= until_date)

\* the provider a model name tells, fallback when it tells none
InferProvider(m, fallback) ==
    IF StartsWith(m, <<"c", "l", "a", "u", "d", "e">>) THEN <<"a", "n", "t", "h", "r", "o", "p", "i", "c">>
    ELSE IF Contains(m, <<"g", "e", "m", "i", "n", "i">>) THEN <<"g", "o", "o", "g", "l", "e">>
    ELSE IF StartsWith(m, <<"g", "p", "t">>) \/ Contains(m, <<"c", "o", "d", "e", "x">>) THEN <<"o", "p", "e", "n", "a", "i">>
    ELSE fallback

\* CodexParser._infer_provider(model, fallback)
Codex_infer_provider(model, fallback) == InferProvider(Lower(model), fallback)

\* ClaudeParser._infer_provider(model)
Claude_infer_provider(model) == InferProvider(Lower(model), <<>>)

Entry(source, model, provider, input_t, output_t, cache_r, cache_w, reasoning, ts) ==
    [source |-> source, model |-> model, provider |-> provider,
     input |-> input_t, output |-> output_t, cacheRead |-> cache_r, cacheWrite |-> cache_w,
     reasoning |-> reasoning,
     cost |-> get_cost(model, input_t, output_t, cache_r, cache_w),
     timestamp |-> ts * MS]

(* CodexParser.collect.  The state of the loop over the lines of a file:   *)
(* the current model and provider, the entries so far, and whether an      *)
(* exception has ended the file.                                           *)
CODEX_DEFAULT_MODEL == <<"g", "p", "t", "-", "5", ".", "3", "-", "c", "o", "d", "e", "x">>

\* CodexContext with the fault of leaving the provider as it was
CodexModelOnly(st, line) ==
    IF line.type = "turn_context" /\ line.payload.model # <<>>
    THEN [st EXCEPT !.model = line.payload.model]
    ELSE st

\* the model and provider after a turn_context or session_meta line
CodexContext(st, line) ==
    IF line.type = "turn_context" /\ line.payload.model # <<>>
    THEN [st EXCEPT !.model = line.payload.model,
                    !.provider = Codex_infer_provider(line.payload.model, st.provider)]
    ELSE IF line.type = "session_meta" /\ line.payload.model_provider # <<>>
    THEN [st EXCEPT !.provider = line.payload.model_provider]
    ELSE st

\* the entry of a token_count event, unless all its counts are zero
CodexAppend(st, ts, total_input, cache_read, output_t, reasoning) ==
    IF total_input - cache_read = 0 /\ output_t = 0 /\ cache_read = 0 /\ reasoning = 0
    THEN st
    ELSE [st EXCEPT !.out = Append(@, Entry(<<"c", "o", "d", "e", "x">>, st.model, st.provider,
                                           total_input - cache_read, output_t, cache_read, 0,
                                           reasoning, ts))]

CodexEmit(st, line, since_date, until_date) ==
    IF line.type # "event_msg" \/ line.payload.type # "token_count" THEN st
    ELSE IF line.ts = 0 THEN st
    ELSE IF ~_in_range(line.ts, since_date, until_date) THEN st
    ELSE IF line.payload.usage.kind # "map" \/ DOMAIN line.payload.usage.d = {} THEN st
    ELSE CodexAppend(st, line.ts,
                     _i(Get(line.payload.usage.d, "input_tokens", 0)),
                     _i(Get(line.payload.usage.d, "cached_input_tokens", 0)),
                     _i(Get(line.payload.usage.d, "output_tokens", 0)),
                     _i(Get(line.payload.usage.d, "reasoning_output_tokens", 0)))

\* the loop state after a line: a line that is not JSON is skipped; a JSON
\* value that is not an object, or a payload that is not a mapping where
\* the code reads it, raises, which ends the file
CodexLine(st, line, since_date, until_date) ==
    IF st.dead \/ line.json = "invalid" THEN st
    ELSE IF line.json = "scalar" THEN [st EXCEPT !.dead = TRUE]
    ELSE IF line.payload.kind = "nonmap"
            /\ line.type \in {"turn_context", "session_meta", "event_msg"}
    THEN [st EXCEPT !.dead = TRUE]
    ELSE CodexEmit(CodexContext(st, line), line, since_date, until_date)

RECURSIVE CodexLines(_, _, _, _, _)
CodexLines(st, lines, n, since_date, until_date) ==
    IF n = 0 THEN st
    ELSE CodexLine(CodexLines(st, lines, n - 1, since_date, until_date), lines[n],
                   since_date, until_date)

\* out after the first n files
RECURSIVE CodexFiles(_, _, _, _)
CodexFiles(files, n, since_date, until_date) ==
    IF n = 0 THEN <<>>
    ELSE CodexLines([model |-> CODEX_DEFAULT_MODEL, provider |-> <<"o", "p", "e", "n", "a", "i">>, dead |-> FALSE,
                     out |-> CodexFiles(files, n - 1, since_date, until_date)],
                    files[n].lines, Len(files[n].lines), since_date, until_date).out

\* CodexParser.collect(since_date, until_date)
CodexCollect(exists, files, since_date, until_date) ==
    IF ~exists THEN <<>> ELSE CodexFiles(files, Len(files), since_date, until_date)

(* ClaudeParser.collect.  The loop state: the message ids seen (over all   *)
(* files), the entries so far, whether an exception has ended the file.    *)
\* usage.get(key, usage.get(alias))
Get2(usage, key, alias) == Get(usage, key, Get(usage, alias, 0))

ClaudeAppend(st, ts, model, input_t, output_t, cache_r, cache_w) ==
    IF input_t + output_t + cache_r + cache_w = 0 THEN st
    ELSE [st EXCEPT !.out = Append(@, Entry(<<"c", "l", "a", "u", "d", "e">>, model, Claude_infer_provider(model),
                                           input_t, output_t, cache_r, cache_w, 0, ts))]

\* the rest of the loop body once the message id is recorded
ClaudeEmit(st, line, since_date, until_date) ==
    IF line.ts = 0 THEN st
    ELSE IF ~_in_range(line.ts, since_date, until_date) THEN st
    ELSE ClaudeAppend(st, line.ts,
                      IF line.msg.model = <<>> THEN UNKNOWN ELSE line.msg.model,
                      _i(Get2(line.msg.usage.d, "input_tokens", "input")),
                      _i(Get2(line.msg.usage.d, "output_tokens", "output")),
                      _i(Get2(line.msg.usage.d, "cache_read_input_tokens", "cache_read_tokens")),
                      _i(Get2(line.msg.usage.d, "cache_creation_input_tokens",
                              "cache_write_tokens")))

\* seen_message_ids.add(msg_id) for a truthy id
ClaudeSeen(st, id) == IF id # 0 THEN [st EXCEPT !.seen = @ \cup {id}] ELSE st

ClaudeLine(st, line, since_date, until_date) ==
    IF st.dead \/ line.json = "invalid" THEN st
    ELSE IF line.json = "scalar" THEN [st EXCEPT !.dead = TRUE]
    ELSE IF line.msg.kind # "map" \/ line.msg.role # "assistant" THEN st
    ELSE IF line.msg.usage.kind # "map" \/ DOMAIN line.msg.usage.d = {} THEN st
    ELSE IF line.msg.id \in st.seen THEN st
    ELSE ClaudeEmit(ClaudeSeen(st, line.msg.id), line, since_date, until_date)

RECURSIVE ClaudeLines(_, _, _, _, _)
ClaudeLines(st, lines, n, since_date, until_date) ==
    IF n = 0 THEN st
    ELSE ClaudeLine(ClaudeLines(st, lines, n - 1, since_date, until_date), lines[n],
                    since_date, until_date)

\* the loop state after the first n files
RECURSIVE ClaudeFiles(_, _, _, _)
ClaudeFiles(files, n, since_date, until_date) ==
    IF n = 0 THEN [seen |-> {}, out |-> <<>>, dead |-> FALSE]
    ELSE ClaudeLines([ClaudeFiles(files, n - 1, since_date, until_date) EXCEPT !.dead = FALSE],
                     files[n].lines, Len(files[n].lines), since_date, until_date)

\* ClaudeParser.collect(since_date, until_date)
ClaudeCollect(exists, files, since_date, until_date) ==
    IF ~exists THEN <<>> ELSE ClaudeFiles(files, Len(files), since_date, until_date).out

(* OpenCodeParser.collect.  A row of the message table is its data column  *)
(* (json, tokens, modelID, providerID) and time_created in milliseconds.   *)
\* the upper bound of the query when until_date is None: 9999999999999 in
\* the source, here the largest instant there is
U_MS_DEFAULT == 2147483647

\* WHERE time_created >= s_ms AND time_created < u_ms ORDER BY time_created
OpenCodeQuery(rows, s_ms, u_ms) ==
    LET hit == SelectSeq(rows, LAMBDA r : r.time_created >= s_ms /\ r.time_created < u_ms)
        rank(i) == Cardinality({j \in 1..Len(hit) :
                       \/ hit[j].time_created < hit[i].time_created
                       \/ hit[j].time_created = hit[i].time_created /\ j < i})
    IN [k \in 1..Len(hit) |-> hit[CHOOSE i \in 1..Len(hit) : rank(i) = k - 1]]

\* OpenCodeParser._build_entry(model, provider, tokens, ts_ms)
_build_entry(model, provider, tokens, ts_ms) ==
    [source |-> <<"o", "p", "e", "n", "c", "o", "d", "e">>,
     model |-> IF model = <<>> THEN UNKNOWN ELSE model,
     provider |-> provider,
     input |-> _i(Get(tokens, "input", 0)),
     output |-> _i(Get(tokens, "output", 0)),
     cacheRead |-> _i(Get(Get(tokens, "cache", <<>>), "read", 0)),
     cacheWrite |-> _i(Get(Get(tokens, "cache", <<>>), "write", 0)),
     reasoning |-> _i(Get(tokens, "reasoning", 0)),
     cost |-> get_cost(model, _i(Get(tokens, "input", 0)), _i(Get(tokens, "output", 0)),
                       _i(Get(Get(tokens, "cache", <<>>), "read", 0)),
                       _i(Get(Get(tokens, "cache", <<>>), "write", 0))),
     timestamp |-> ts_ms]

\* the entries of the rows the query returned; a row whose data does not
\* parse to an object with a tokens mapping is skipped
RECURSIVE OpenCodeRows(_, _)
OpenCodeRows(rows, n) ==
    IF n = 0 THEN <<>>
    ELSE OpenCodeRows(rows, n - 1)
         \o (IF rows[n].data.json # "object" \/ rows[n].data.tokens.kind # "map" THEN <<>>
             ELSE << _build_entry(IF rows[n].data.modelID = <<>> THEN UNKNOWN
                                  ELSE rows[n].data.modelID,
                                  rows[n].data.providerID, rows[n].data.tokens.d,
                                  _i(rows[n].time_created)) >>)

OpenCodeOf(hit) == OpenCodeRows(hit, Len(hit))

\* OpenCodeParser.collect(since_date, until_date)
OpenCodeCollect(exists, rows, since_date, until_date) ==
    IF ~exists THEN <<>>
    ELSE OpenCodeOf(OpenCodeQuery(rows,
                                  IF since_date # 0 THEN since_date * MS ELSE 0,
                                  IF until_date # 0 THEN until_date * MS ELSE U_MS_DEFAULT))

\* CodingToolsUsageTracker.collect(since_date, until_date) with all sources
\* selected, then to_json()["entries"]; the roots of gemini_cli and amp do
\* not exist
TrackerCollect(rootset, codex, claude, opencode, since_date, until_date) ==
    OpenCodeCollect("opencode" \in rootset, opencode, since_date, until_date)
    \o CodexCollect("codex" \in rootset, codex, since_date, until_date)
    \o ClaudeCollect("claude" \in rootset, claude, since_date, until_date)

(***************************************************************************)
(* compute.py                                                              *)
(* The calendar: dates are numbered from 1, the day of date.min, and every *)
(* month has DAYS_PER_MONTH days; a date is written ("%Y-%m-%d") as the    *)
(* four decimal digits of its day number.  Arithmetic that leads before    *)
(* day 1 raises OverflowError ("date value out of range").                 *)
(***************************************************************************)
DAYS_PER_MONTH == 30

\* whether date - timedelta(days=back) is a date
DateInRange(day, back) == day - back >= 1

\* dt.replace(hour=0, minute=0, second=0, microsecond=0)
Midnight(t) == DateOf(t) * TICKS_PER_DAY

\* StartOfMonth with the fault of going back 29 days instead
RollingMonth(t) == Midnight(t) - 29 * TICKS_PER_DAY

\* dt.replace(day=1, hour=0, minute=0, second=0, microsecond=0)
StartOfMonth(t) ==
    (((DateOf(t) - 1) \div DAYS_PER_MONTH) * DAYS_PER_MONTH + 1) * TICKS_PER_DAY

DECIMAL == <<"0", "1", "2", "3", "4", "5", "6", "7", "8", "9">>
DigitChar(n) == DECIMAL[n + 1]
DigitValue(c) == (CHOOSE i \in 1..10 : DECIMAL[i] = c) - 1

\* date.strftime("%Y-%m-%d")
strftime(day) ==
    <<DigitChar((day \div 1000) % 10), DigitChar((day \div 100) % 10),
      DigitChar((day \div 10) % 10), DigitChar(day % 10)>>

\* the value of a string of decimal digits
RECURSIVE DigitsValue(_, _)
DigitsValue(s, n) == IF n = 0 THEN 0 ELSE 10 * DigitsValue(s, n - 1) + DigitValue(s[n])

\* datetime.strptime(s, "%Y-%m-%d") as a day number, -1 for ValueError
strptime(s) == IF Len(s) = 4 /\ AllDigits(s) THEN DigitsValue(s, 4) ELSE -1

\* the digits of an int literal: digits with single underscores between them
IsIntLiteral(s) ==
    /\ s # <<>>
    /\ \A i \in 1..Len(s) : IsDigit(s[i]) \/ s[i] = "_"
    /\ IsDigit(s[1]) /\ IsDigit(s[Len(s)])
    /\ \A i \in 1..(Len(s) - 1) : ~(s[i] = "_" /\ s[i + 1] = "_")

\* the value of an int literal
LiteralValue(digits) == DigitsValue(digits, Len(digits))

\* int(s) of a str: optional blanks around an optional sign and an int
\* literal; <<FALSE, 0>> for ValueError
IntOfSigned(s) ==
    IF s # <<>> /\ s[1] \in {"+", "-"}
    THEN IF IsIntLiteral(Tail(s))
         THEN <<TRUE, (IF s[1] = "-" THEN -1 ELSE 1)
                      * LiteralValue(SelectSeq(Tail(s), IsDigit))>>
         ELSE <<FALSE, 0>>
    ELSE IF IsIntLiteral(s) THEN <<TRUE, LiteralValue(SelectSeq(s, IsDigit))>> ELSE <<FALSE, 0>>

PERIOD_DAYS ==
    {<<<<"t", "o", "d", "a", "y">>, 1>>, <<<<"3", "d", "a", "y", "s">>, 3>>, <<<<"w", "e", "e", "k">>, 7>>, <<<<"1", "4", "d", "a", "y", "s">>, 14>>, <<<<"m", "o", "n", "t", "h">>, 30>>}

\* max(1, n) when int(period) gave n, else mapping.get(period, 1)
DaysOf(period, parsed) ==
    IF parsed[1] THEN Max2(1, parsed[2])
    ELSE IF \E m \in PERIOD_DAYS : m[1] = period
    THEN (CHOOSE m \in PERIOD_DAYS : m[1] = period)[2]
    ELSE 1

period_to_days(period) == DaysOf(period, IntOfSigned(Strip(period)))

SinceUntilArgs(start_day, end_day) ==
    <<<<"-", "-", "s", "i", "n", "c", "e">>, strftime(start_day), <<"-", "-", "u", "n", "t", "i", "l">>, strftime(end_day)>>

\* stands for the OverflowError that leaves period_to_range_args
OVERFLOW == <<<<"O", "v", "e", "r", "f", "l", "o", "w", "E", "r", "r", "o", "r">>>>

RangeArgsOfDays(days, t) ==
    IF days = 1 THEN <<<<"-", "-", "t", "o", "d", "a", "y">>>>
    ELSE IF ~DateInRange(DateOf(t), days - 1) THEN OVERFLOW
    ELSE SinceUntilArgs(DateOf(t) - (days - 1), DateOf(t))

\* period_to_range_args(period) at the instant t
period_to_range_args(period, t) ==
    IF period = <<"m", "o", "n", "t", "h">>
    THEN SinceUntilArgs(DateOf(StartOfMonth(t)), DateOf(t))
    ELSE RangeArgsOfDays(period_to_days(period), t)

\* list.index(x), 0 when x is not in the list
Index(list, x) ==
    IF \E i \in 1..Len(list) : list[i] = x
    THEN MinOf({i \in 1..Len(list) : list[i] = x}) ELSE 0

\* the day of the date that follows flag in the arguments: 0 when the flag
\* is absent, -1 when what follows is missing or no date
DayAfter(period_args, flag) ==
    IF Index(period_args, flag) = 0 THEN 0
    ELSE IF Index(period_args, flag) = Len(period_args) THEN -1
    ELSE strptime(period_args[Index(period_args, flag) + 1])

\* <<since, until>> from the days that follow --since and --until; an
\* exception gives <<None, None>>; the day of --until is inclusive
RangeOfDays(since_day, until_day) ==
    IF since_day < 0 \/ until_day < 0 THEN <<0, 0>>
    ELSE <<IF since_day = 0 THEN 0 ELSE since_day * TICKS_PER_DAY,
           IF until_day = 0 THEN 0 ELSE (until_day + 1) * TICKS_PER_DAY>>

\* _date_range_from_args with the fault of ending every range just after the
\* instant t
DateRangeUntilNow(period_args, t) ==
    IF Index(period_args, <<"-", "-", "t", "o", "d", "a", "y">>) # 0 THEN <<Midnight(t), t + 1>>
    ELSE <<RangeOfDays(DayAfter(period_args, <<"-", "-", "s", "i", "n", "c", "e">>), 0)[1], t + 1>>

\* _date_range_from_args(period_args) at the instant t
_date_range_from_args(period_args, t) ==
    IF Index(period_args, <<"-", "-", "t", "o", "d", "a", "y">>) # 0
    THEN <<Midnight(t), Midnight(t) + TICKS_PER_DAY>>
    ELSE RangeOfDays(DayAfter(period_args, <<"-", "-", "s", "i", "n", "c", "e">>), DayAfter(period_args, <<"-", "-", "u", "n", "t", "i", "l">>))

\* SortedByCost with the fault of leaving the rows in insertion order
Unsorted(s) == s

\* s in the order of sorted(s, key=cost, reverse=True): descending cost,
\* rows of equal cost in their order in s
SortedByCost(s) ==
    LET rank(i) == Cardinality({j \in 1..Len(s) :
                       \/ FLess(s[i].cost, s[j].cost)
                       \/ s[j].cost = s[i].cost /\ j < i})
    IN [k \in 1..Len(s) |-> s[CHOOSE i \in 1..Len(s) : rank(i) = k - 1]]

\* the figures parse_entries_json takes from an entry
EntryFigures(full_model_name, input_raw, tokens_out, cache_read, cache_write) ==
    [name |-> full_model_name,
     tokens |-> input_raw + cache_write + tokens_out + cache_read,
     tokens_in |-> input_raw + cache_write,
     tokens_out |-> tokens_out,
     tokens_cache |-> cache_read,
     cost |-> get_cost(full_model_name, input_raw, tokens_out, cache_read, cache_write),
     messages |-> 1]

FiguresOfEntry(entry) ==
    EntryFigures(IF entry.provider # <<>> THEN entry.provider \o <<"/">> \o entry.model
                 ELSE entry.model,
                 entry.input, entry.output, entry.cacheRead, entry.cacheWrite)

ZeroRow == [tokens |-> 0, tokens_in |-> 0, tokens_out |-> 0, tokens_cache |-> 0,
            cost |-> FZero, messages |-> 0]

\* row += f on the six sums
AddToRow(row, f) ==
    [row EXCEPT !.tokens = @ + f.tokens, !.tokens_in = @ + f.tokens_in,
                !.tokens_out = @ + f.tokens_out, !.tokens_cache = @ + f.tokens_cache,
                !.cost = FAdd(@, f.cost), !.messages = @ + f.messages]

\* d.setdefault(key, fresh) += f for a dict d kept as a sequence of
\* <<key, row>> in insertion order
Upsert(d, key, fresh, f) ==
    IF \E i \in 1..Len(d) : d[i][1] = key
    THEN [i \in 1..Len(d) |-> IF d[i][1] = key THEN <<key, AddToRow(d[i][2], f)>> ELSE d[i]]
    ELSE Append(d, <<key, AddToRow(fresh, f)>>)

NamedRow(name) == [name |-> name] @@ ZeroRow
SourceRow(source, name) == [source |-> source, name |-> name] @@ ZeroRow

\* apps[source] += f and apps[source]["models_dict"][name] += f; an app is
\* <<source, sums, models_dict>>
UpsertApp(apps, source, f) ==
    IF \E i \in 1..Len(apps) : apps[i][1] = source
    THEN [i \in 1..Len(apps) |->
            IF apps[i][1] = source
            THEN <<source, AddToRow(apps[i][2], f), Upsert(apps[i][3], f.name, NamedRow(f.name), f)>>
            ELSE apps[i]]
    ELSE Append(apps, <<source, AddToRow(ZeroRow, f), Upsert(<<>>, f.name, NamedRow(f.name), f)>>)

\* the loop state after an entry with figures f; fully empty entries are
\* suppressed
ParseEntry(acc, source, f) ==
    IF f.tokens = 0 THEN acc
    ELSE [apps |-> UpsertApp(acc.apps, source, f),
          all_models_dict |-> Upsert(acc.all_models_dict, <<source, f.name>>,
                                     SourceRow(source, f.name), f)]

RECURSIVE ParseEntries(_, _)
ParseEntries(entries, n) ==
    IF n = 0 THEN [apps |-> <<>>, all_models_dict |-> <<>>]
    ELSE ParseEntry(ParseEntries(entries, n - 1), entries[n].source, FiguresOfEntry(entries[n]))

Values(d) == [i \in 1..Len(d) |-> d[i][2]]

\* the report of parse_entries_json from the sorted rows and the apps
ParsedReport(all_models, apps) ==
    [total_cost |-> FSum([i \in 1..Len(all_models) |-> all_models[i].cost], Len(all_models),
                         FZero),
     total_tokens |-> SumInts(all_models, LAMBDA x : x.tokens),
     total_messages |-> SumInts(all_models, LAMBDA x : x.messages),
     apps |-> [i \in 1..Len(apps) |->
                 <<apps[i][1], [models |-> SortedByCost(Values(apps[i][3]))] @@ apps[i][2]>>],
     all_models |-> all_models]

ParsedOf(acc) == ParsedReport(SortedByCost(Values(acc.all_models_dict)), acc.apps)

\* parse_entries_json({"entries": entries})
parse_entries_json(entries) == ParsedOf(ParseEntries(entries, Len(entries)))

\* _has_visible_token_usage(row), given the row's cache_read and cache_write
VisibleWith(row, tokens_in, tokens_out, cache_read, cache_write) ==
    tokens_in + tokens_out
    + (IF cache_read = 0 /\ cache_write = 0 THEN Get(row, "tokens_cache", 0) ELSE cache_read)
    + cache_write > 0

\* _has_visible_token_usage with the fault of showing every row
AlwaysVisible(row) == TRUE

_has_visible_token_usage(row) ==
    VisibleWith(row,
                Get(row, "tokens_in", Get(row, "input", 0)),
                Get(row, "tokens_out", Get(row, "output", 0)),
                Get(row, "cache_read", Get(row, "cacheRead", 0)),
                Get(row, "cache_write", Get(row, "cacheWrite", 0)))

\* get_usage_for_days(days) at the instant t
get_usage_for_days(files, days, t) ==
    IF ~DateInRange(DateOf(t), Max2(days, 1) - 1) THEN RAISED
    ELSE get_session_usage(files, Midnight(t) - (Max2(days, 1) - 1) * TICKS_PER_DAY, t)

\* get_usage_for_month() at the instant t
get_usage_for_month(files, t) == get_session_usage(files, StartOfMonth(t), t)

\* the call get_session_data(period) makes: the calendar-month path, or the
\* N-day path with its argument
SessionCall(period) ==
    IF period = <<"m", "o", "n", "t", "h">> THEN <<"get_usage_for_month">>
    ELSE <<"get_usage_for_days", period_to_days(period)>>

\* the result of that call
SessionCalled(files, call, t) ==
    IF call[1] = "get_usage_for_month" THEN get_usage_for_month(files, t)
    ELSE get_usage_for_days(files, call[2], t)

\* get_session_data(period)
get_session_data(files, period, t) == SessionCalled(files, SessionCall(period), t)

\* run_local_coding_tools_json(period_args)["entries"] with range = <<since, until>>
CollectRange(rootset, codex, claude, opencode, range) ==
    TrackerCollect(rootset, codex, claude, opencode, range[1], range[2])

\* get_tools_data(period) once period_to_range_args has returned or raised
ToolsDataOfArgs(rootset, codex, claude, opencode, period_args, t) ==
    IF period_args = OVERFLOW THEN RAISED
    ELSE parse_entries_json(CollectRange(rootset, codex, claude, opencode,
                                         _date_range_from_args(period_args, t)))

\* get_tools_data(period)
get_tools_data(rootset, codex, claude, opencode, period, t) ==
    ToolsDataOfArgs(rootset, codex, claude, opencode, period_to_range_args(period, t), t)

NotOpenclaw(source) == Lower(source) # <<"o", "p", "e", "n", "c", "l", "a", "w">>

\* add_row with the fault of keeping the first row of a key and dropping
\* the later ones instead of adding them
AddRowKeepFirst(combined_by_model, row) ==
    IF ~_has_visible_token_usage(row) THEN combined_by_model
    ELSE IF \E i \in 1..Len(combined_by_model) :
               combined_by_model[i][1] = normalize_model_name(row.name)
    THEN combined_by_model
    ELSE Upsert(combined_by_model, normalize_model_name(row.name),
                NamedRow(normalize_model_name(row.name)), row)

\* add_row(row) on combined_by_model
add_row(combined_by_model, row) ==
    IF ~_has_visible_token_usage(row) THEN combined_by_model
    ELSE Upsert(combined_by_model, normalize_model_name(row.name),
                NamedRow(normalize_model_name(row.name)), row)

RECURSIVE AddRows(_, _, _)
AddRows(combined_by_model, rows, n) ==
    IF n = 0 THEN combined_by_model ELSE add_row(AddRows(combined_by_model, rows, n - 1), rows[n])

Take(s, n) == SubSeq(s, 1, IF Len(s) < n THEN Len(s) ELSE n)

TOP_MODELS == 5

\* the object compute_usage returns, from the parts it is built of
UsageObject(period, openclaw_data, coding_apps, coding_models, openclaw_models, combined_models, t) ==
    [raised |-> FALSE,
     period |-> period,
     total_tokens |-> openclaw_data.total_tokens + SumInts(coding_apps, LAMBDA a : a[2].tokens),
     total_cost |->
        FRound(FAdd(openclaw_data.total_cost,
                    FSum([i \in 1..Len(coding_apps) |-> coding_apps[i][2].cost],
                         Len(coding_apps), FZero)), 100),
     by_tool |-> [i \in 1..Len(coding_apps) |->
                    <<coding_apps[i][1],
                      [tokens |-> coding_apps[i][2].tokens, cost |-> coding_apps[i][2].cost]>>]
                 \o << <<<<"o", "p", "e", "n", "c", "l", "a", "w">>, [tokens |-> openclaw_data.total_tokens,
                                        cost |-> openclaw_data.total_cost]>> >>,
     coding_apps |-> coding_apps,
     coding_models |-> coding_models,
     top_models |-> Take(combined_models, TOP_MODELS),
     openclaw_models |-> openclaw_models,
     combined_models |-> combined_models,
     timestamp |-> t]

UsageOfLists(period, openclaw_data, coding_apps, coding_models, openclaw_models, t) ==
    UsageObject(period, openclaw_data, coding_apps, coding_models, openclaw_models,
                SortedByCost(Values(AddRows(AddRows(<<>>, coding_models, Len(coding_models)),
                                            openclaw_models, Len(openclaw_models)))),
                t)

\* compute_usage from the two reports; an exception of get_session_usage
\* or of get_tools_data passes through
UsageOfData(period, openclaw_data, coding_data, t) ==
    IF openclaw_data.raised THEN RAISED
    ELSE IF "raised" \in DOMAIN coding_data THEN RAISED
    ELSE UsageOfLists(period, openclaw_data,
                      SelectSeq(coding_data.apps, LAMBDA a : NotOpenclaw(a[1])),
                      SelectSeq(coding_data.all_models,
                                LAMBDA m : NotOpenclaw(m.source) /\ _has_visible_token_usage(m)),
                      SortedByCost(SelectSeq(openclaw_data.models, _has_visible_token_usage)),
                      t)

\* compute_usage(period) at the instant t
compute_usage(files, rootset, codex, claude, opencode, period, t) ==
    UsageOfData(period, get_session_data(files, period, t),
                get_tools_data(rootset, codex, claude, opencode, period, t), t)

(* compute_stats(year).  A year is twelve months; a day of the daily series *)
(* of the coding tools is a record as _contributions_from_entries builds   *)
(* it, its date being the number of the day.                               *)
DAYS_PER_YEAR == 12 * DAYS_PER_MONTH

\* the first instant of the year
StartOfYear(year) == ((year - 1) * DAYS_PER_YEAR + 1) * TICKS_PER_DAY

\* get_usage_for_year(year)
get_usage_for_year(files, year) ==
    get_session_usage(files, StartOfYear(year), StartOfYear(year + 1) - 1)

\* the local day of an entry, 0 for an entry without a positive timestamp
EntryDate(e) == IF e.timestamp <= 0 THEN 0 ELSE DateOf(e.timestamp \div MS)

\* the element of sources an entry adds
EntrySource(e) ==
    [source |-> e.source,
     modelId |-> e.model,
     providerId |-> IF e.provider # <<>> THEN e.provider ELSE UNKNOWN,
     tokens |-> [input |-> e.input + e.cacheWrite, output |-> e.output,
                 cacheRead |-> e.cacheRead, cacheWrite |-> 0, reasoning |-> e.reasoning],
     cost |-> e.cost,
     messages |-> 1]

\* the day by_date.setdefault(date, ...) creates
EmptyDay(date) ==
    [date |-> date,
     totals |-> [tokens |-> 0, cost |-> FZero, messages |-> 0],
     intensity |-> 0,
     tokenBreakdown |-> [input |-> 0, output |-> 0, cacheRead |-> 0, cacheWrite |-> 0, reasoning |-> 0],
     sources |-> <<>>]

\* the day after the entry e
AddEntryToDay(day, e) ==
    [date |-> day.date,
     totals |-> [tokens |-> day.totals.tokens + e.input + e.cacheWrite + e.output + e.cacheRead + e.reasoning,
                 cost |-> FAdd(day.totals.cost, e.cost),
                 messages |-> day.totals.messages + 1],
     intensity |-> day.intensity,
     tokenBreakdown |-> [input |-> day.tokenBreakdown.input + e.input + e.cacheWrite,
                         output |-> day.tokenBreakdown.output + e.output,
                         cacheRead |-> day.tokenBreakdown.cacheRead + e.cacheRead,
                         cacheWrite |-> day.tokenBreakdown.cacheWrite,
                         reasoning |-> day.tokenBreakdown.reasoning + e.reasoning],
     sources |-> Append(day.sources, EntrySource(e))]

\* by_date, a dict kept as a sequence of days in insertion order, after the
\* entry e of the day date
AddEntry(by_date, e, date) ==
    IF date = 0 THEN by_date
    ELSE IF \E i \in 1..Len(by_date) : by_date[i].date = date
    THEN [i \in 1..Len(by_date) |->
            IF by_date[i].date = date THEN AddEntryToDay(by_date[i], e) ELSE by_date[i]]
    ELSE Append(by_date, AddEntryToDay(EmptyDay(date), e))

RECURSIVE EntriesByDate(_, _)
EntriesByDate(entries, n) ==
    IF n = 0 THEN <<>>
    ELSE AddEntry(EntriesByDate(entries, n - 1), entries[n], EntryDate(entries[n]))

_contributions_from_entries(entries) ==
    SortedByKey(EntriesByDate(entries, Len(entries)), LAMBDA d : d.date)

\* period_args of compute_stats(year): --since <1 January> --until <31 December>
YearArgs(year) ==
    SinceUntilArgs((year - 1) * DAYS_PER_YEAR + 1, year * DAYS_PER_YEAR)

\* coding_contribs of compute_stats(year), the sources of openclaw removed
WithoutOpenclaw(day) ==
    [day EXCEPT !.sources = AtPositions(@, {i \in 1..Len(day.sources) : NotOpenclaw(day.sources[i].source)})]

FilterSources(coding_contribs) ==
    [i \in 1..Len(coding_contribs) |-> WithoutOpenclaw(coding_contribs[i])]

CodingContribs(rootset, codex, claude, opencode, year, t) ==
    FilterSources(_contributions_from_entries(
                      CollectRange(rootset, codex, claude, opencode,
                                   _date_range_from_args(YearArgs(year), t))))

\* the day of the series whose date is date; the date is in the series
DayOf(series, date) == series[CHOOSE i \in 1..Len(series) : series[i].date = date]

\* MergedDay with the fault of keeping the session record of a date both
\* series have
MergedKeepSession(ocl_day, c_day) == ocl_day

\* the merged record of a date both series have
MergedDay(ocl_day, c_day) ==
    [date |-> ocl_day.date,
     totals |-> [tokens |-> ocl_day.totals.tokens + c_day.totals.tokens,
                 cost |-> FAdd(ocl_day.totals.cost, c_day.totals.cost),
                 messages |-> ocl_day.totals.messages + c_day.totals.messages],
     intensity |-> Max2(ocl_day.intensity, c_day.intensity),
     tokenBreakdown |-> [input |-> ocl_day.tokenBreakdown.input + c_day.tokenBreakdown.input,
                         output |-> ocl_day.tokenBreakdown.output + c_day.tokenBreakdown.output,
                         cacheRead |-> ocl_day.tokenBreakdown.cacheRead + c_day.tokenBreakdown.cacheRead,
                         cacheWrite |-> ocl_day.tokenBreakdown.cacheWrite + c_day.tokenBreakdown.cacheWrite,
                         reasoning |-> ocl_day.tokenBreakdown.reasoning + c_day.tokenBreakdown.reasoning],
     sources |-> ocl_day.sources \o c_day.sources]

\* the record of the date in merged
MergedOf(ocl, coding, date) ==
    IF \E i \in 1..Len(ocl) : ocl[i].date = date
    THEN IF \E i \in 1..Len(coding) : coding[i].date = date
         THEN MergedDay(DayOf(ocl, date), DayOf(coding, date))
         ELSE DayOf(ocl, date)
    ELSE DayOf(coding, date)

\* the n-th smallest element of a set of ints
NthOf(S, n) == CHOOSE x \in S : Cardinality({y \in S : y < x}) = n - 1

\* merged: one record per date of either series, in ascending order
Merged(ocl, coding, all_dates) ==
    [k \in 1..Cardinality(all_dates) |-> MergedOf(ocl, coding, NthOf(all_dates, k))]

\* "summary" of the result
StatsSummary(merged) ==
    [totalTokens |-> SumInts(merged, LAMBDA d : d.totals.tokens),
     totalCost |-> FSum([i \in 1..Len(merged) |-> merged[i].totals.cost], Len(merged), FZero),
     activeDays |-> Len(merged),
     totalDays |-> IF merged = <<>> THEN 0 ELSE merged[Len(merged)].date - merged[1].date + 1]

\* the two series, "contributions" and "summary" of the result
StatsOfMerged(ocl, coding, merged) ==
    [raised |-> FALSE, session |-> ocl, coding |-> coding,
     contributions |-> merged, summary |-> StatsSummary(merged)]

StatsOfSeries(ocl, coding) ==
    StatsOfMerged(ocl, coding,
                  Merged(ocl, coding,
                         {ocl[i].date : i \in 1..Len(ocl)} \cup {coding[i].date : i \in 1..Len(coding)}))

StatsOfData(session_data, coding) ==
    IF session_data.raised THEN RAISED ELSE StatsOfSeries(session_data.contributions, coding)

\* compute_stats(year) at the instant t: the daily series of the session
\* logs, that of the coding tools, and "contributions" and "summary" of the
\* result
compute_stats(files, rootset, codex, claude, opencode, year, t) ==
    StatsOfData(get_usage_for_year(files, year),
                CodingContribs(rootset, codex, claude, opencode, year, t))

(***************************************************************************)
(* The state: the logs the tools have written, the clock, and the response *)
(* of the request in progress.                                             *)
(***************************************************************************)
VARIABLES
    session_files,  \* ~/.openclaw/agents/*/sessions/*.jsonl, in glob order
    codex_files,    \* ~/.codex/sessions/**/*.jsonl, in rglob order
    claude_files,   \* ~/.claude/projects/**/*.jsonl, in rglob order
    opencode_db,    \* the rows of the message table of opencode.db
    roots,          \* which of the tools' root locations exist
    now,            \* the clock
    response,       \* what the request in progress has returned
    entries,        \* CodingToolsUsageTracker.entries of one tracker
    resolved_cache, \* PricingDatabase._resolved_cache of one database
    calls,          \* the calls of _resolve_pricing in progress, by caller
    _cache,         \* api._cache
    requests,       \* the API requests in progress, by worker thread
    clock           \* datetime.now().timestamp(), in seconds since the server started

\* the state of the long-lived objects: the tracker, the pricing database
\* and the API module
service == <<entries, resolved_cache, calls, _cache, requests, clock>>

vars == <<session_files, codex_files, claude_files, opencode_db, roots, now, response, service>>

\* the first instant of the clock
START == 60
\* at most MaxLines records in a log, in at most MaxFiles files; at most
\* MaxRecords records in the logs of the short scenarios
MaxLines == 7
MaxFiles == 2
MaxRecords == 3

IDLE == [op |-> "idle"]

\* at most MaxCallers threads call into the pricing database or the API at
\* a time
MaxCallers == 2
CALLERS == 1..MaxCallers

\* a fresh tracker, a freshly loaded pricing database, an empty API cache
\* and no call in progress
ServiceInit ==
    /\ entries = <<>>
    /\ resolved_cache = <<>>
    /\ calls = [c \in CALLERS |-> IDLE]
    /\ _cache = <<>>
    /\ requests = [c \in CALLERS |-> IDLE]
    /\ clock = 0

Init ==
    /\ session_files = <<>>
    /\ codex_files = <<>>
    /\ claude_files = <<>>
    /\ opencode_db = <<>>
    /\ roots = {}
    /\ now = START
    /\ response = IDLE
    /\ ServiceInit

RECURSIVE TotalLines(_, _)
TotalLines(files, n) == IF n = 0 THEN 0 ELSE TotalLines(files, n - 1) + Len(files[n].lines)

\* a tool appends the line to its f-th log file (a new file when f is one
\* past the last), which sets the file's modification time
AppendLine(files, f, line) ==
    IF f = Len(files) + 1
    THEN Append(files, [mtime |-> now, lines |-> <<line>>])
    ELSE [files EXCEPT ![f] = [mtime |-> now, lines |-> Append(@.lines, line)]]

\* OpenClaw writes a line to a session log
WriteSessionLine(f, line) ==
    /\ response = IDLE
    /\ TotalLines(session_files, Len(session_files)) < MaxLines
    /\ f <= MaxFiles
    /\ session_files' = AppendLine(session_files, f, line)
    /\ UNCHANGED <<codex_files, claude_files, opencode_db, roots, now, response, service>>

\* a caller runs get_session_usage(sessions_dir, since_date, until_date)
GetSessionUsage(since_date, until_date) ==
    /\ response = IDLE
    /\ response' = [op |-> "get_session_usage", since |-> since_date, until |-> until_date,
                    out |-> get_session_usage(session_files, since_date, until_date)]
    /\ UNCHANGED <<session_files, codex_files, claude_files, opencode_db, roots, now, service>>

\* Codex appends a line to a rollout file under ~/.codex/sessions
WriteCodexLine(f, line) ==
    /\ response = IDLE
    /\ TotalLines(codex_files, Len(codex_files)) < MaxLines
    /\ f <= MaxFiles
    /\ codex_files' = AppendLine(codex_files, f, line)
    /\ roots' = roots \cup {"codex"}
    /\ UNCHANGED <<session_files, claude_files, opencode_db, now, response, service>>

\* Claude Code appends a line to a transcript under ~/.claude/projects
WriteClaudeLine(f, line) ==
    /\ response = IDLE
    /\ TotalLines(claude_files, Len(claude_files)) < MaxLines
    /\ f <= MaxFiles
    /\ claude_files' = AppendLine(claude_files, f, line)
    /\ roots' = roots \cup {"claude"}
    /\ UNCHANGED <<session_files, codex_files, opencode_db, now, response, service>>

\* OpenCode inserts a row into the message table of opencode.db
WriteOpenCodeRow(row) ==
    /\ response = IDLE
    /\ Len(opencode_db) < MaxLines
    /\ opencode_db' = Append(opencode_db, row)
    /\ roots' = roots \cup {"opencode"}
    /\ UNCHANGED <<session_files, codex_files, claude_files, now, response, service>>

\* a caller runs CodingToolsUsageTracker.collect(since_date, until_date)
\* and takes to_json()["entries"]
Collect(since_date, until_date) ==
    /\ response = IDLE
    /\ response' = [op |-> "collect", since |-> since_date, until |-> until_date,
                    out |-> TrackerCollect(roots, codex_files, claude_files, opencode_db,
                                           since_date, until_date)]
    /\ UNCHANGED <<session_files, codex_files, claude_files, opencode_db, roots, now, service>>

\* a caller runs compute_usage(period)
ComputeUsage(period) ==
    /\ response = IDLE
    /\ response' = [op |-> "compute_usage", period |-> period,
                    out |-> compute_usage(session_files, roots, codex_files, claude_files,
                                          opencode_db, period, now)]
    /\ UNCHANGED <<session_files, codex_files, claude_files, opencode_db, roots, now, service>>

\* a caller runs compute_stats(year)
ComputeStats(year) ==
    /\ response = IDLE
    /\ response' = [op |-> "compute_stats", year |-> year,
                    out |-> compute_stats(session_files, roots, codex_files, claude_files,
                                          opencode_db, year, now)]
    /\ UNCHANGED <<session_files, codex_files, claude_files, opencode_db, roots, now, service>>

\* the caller takes the response; the next request can start
Deliver ==
    /\ response # IDLE
    /\ response' = IDLE
    /\ UNCHANGED <<session_files, codex_files, claude_files, opencode_db, roots, now, service>>

(***************************************************************************)
(* Session logs of well-formed assistant messages.                         *)
(***************************************************************************)
SessionLine(ts, provider, model, usage) ==
    [json |-> "object", type |-> "message", ts |-> ts, msg |-> "map", role |-> "assistant",
     provider |-> provider, model |-> model, usage |-> [kind |-> "map", d |-> usage]]

S_CANONICAL ==
    SessionLine(START - TICKS_PER_DAY, <<"o", "p", "e", "n", "a", "i">>, <<"g", "p", "t", "-", "4", "o", "-", "m", "i", "n", "i">>,
                [input |-> 1000, output |-> 2, cacheWrite |-> 3, cacheRead |-> 4])
S_ALIAS ==
    SessionLine(START, <<"o", "p", "e", "n", "a", "i">>, <<"g", "p", "t", "-", "4", "o", "-", "m", "i", "n", "i">>,
                [inputTokens |-> 5, outputTokens |-> 7, cacheWriteTokens |-> 11,
                 cacheReadTokens |-> 13])
S_COST_A == SessionLine(START - 1, <<>>, <<"m", "y", "s", "t", "e", "r", "y">>, [input |-> 1, cost |-> FLit(1, 10)])
S_COST_B == SessionLine(START, <<>>, <<"m", "y", "s", "t", "e", "r", "y">>, [output |-> 2, totalCost |-> FLit(1, 4)])
S_ZERO == SessionLine(START, <<>>, <<"m", "y", "s", "t", "e", "r", "y">>, [input |-> 0, output |-> 0])

SESSION_LINES == {S_CANONICAL, S_ALIAS, S_COST_A, S_COST_B, S_ZERO}
SESSION_BOUNDS == {0, START - 1, START}
\* the ranges asked for: unbounded, the last two instants, from the last on
SESSION_RANGES == {<<0, 0>>, <<START - 1, START>>, <<START, 0>>}

NextSession ==
    \/ /\ TotalLines(session_files, Len(session_files)) < MaxRecords
       /\ \E f \in 1..(Len(session_files) + 1), line \in SESSION_LINES : WriteSessionLine(f, line)
    \/ \E r \in SESSION_RANGES : GetSessionUsage(r[1], r[2])
    \/ Deliver

SpecSession == Init /\ [][NextSession]_vars

(***************************************************************************)
(* Session logs with malformed lines.                                      *)
(***************************************************************************)
\* a line that is not JSON ("invalid") or JSON that is not an object ("scalar")
S_INVALID ==
    [json |-> "invalid", type |-> "", ts |-> 0, msg |-> "absent", role |-> "",
     provider |-> <<>>, model |-> <<>>, usage |-> [kind |-> "absent", d |-> <<>>]]
S_SCALAR == [S_INVALID EXCEPT !.json = "scalar"]
\* a message record whose "message" is not a mapping
S_BAD_MESSAGE == [S_INVALID EXCEPT !.json = "object", !.type = "message", !.ts = START,
                                   !.msg = "nonmap"]
\* an assistant message whose "usage" is a non-mapping value
S_BAD_USAGE == [S_CANONICAL EXCEPT !.usage = [kind |-> "nonmap", d |-> <<>>]]

MALFORMED_LINES == {S_CANONICAL, S_INVALID, S_SCALAR, S_BAD_MESSAGE, S_BAD_USAGE}

NextMalformed ==
    \/ /\ TotalLines(session_files, Len(session_files)) < MaxRecords
       /\ \E f \in 1..(Len(session_files) + 1), line \in MALFORMED_LINES : WriteSessionLine(f, line)
    \/ \E r \in SESSION_RANGES : GetSessionUsage(r[1], r[2])
    \/ Deliver

SpecMalformed == Init /\ [][NextMalformed]_vars

(***************************************************************************)
(* Codex and Claude logs with malformed lines.                             *)
(***************************************************************************)
NO_USAGE == [kind |-> "absent", d |-> <<>>]

CodexRecord(type, ts, payload) == [json |-> "object", type |-> type, ts |-> ts, payload |-> payload]
CodexPayload(type, model, usage) ==
    [kind |-> "map", type |-> type, model |-> model, model_provider |-> <<>>, usage |-> usage]

\* a turn_context line naming the model
X_CONTEXT == CodexRecord("turn_context", START, CodexPayload("", <<"g", "p", "t", "-", "4", "o", "-", "m", "i", "n", "i">>, NO_USAGE))
\* a token_count event
CodexTokens(ts, usage) ==
    CodexRecord("event_msg", ts, CodexPayload("token_count", <<>>, [kind |-> "map", d |-> usage]))
X_TOKENS == CodexTokens(START, [input_tokens |-> 10, cached_input_tokens |-> 4, output_tokens |-> 3])
X_INVALID ==
    [json |-> "invalid", type |-> "", ts |-> 0,
     payload |-> [kind |-> "absent", type |-> "", model |-> <<>>, model_provider |-> <<>>,
                  usage |-> NO_USAGE]]
X_SCALAR == [X_INVALID EXCEPT !.json = "scalar"]

CODEX_LINES == {X_CONTEXT, X_TOKENS, X_INVALID, X_SCALAR}

\* an assistant message of a transcript
ClaudeMessage(ts, id, model, usage) ==
    [json |-> "object", ts |-> ts,
     msg |-> [kind |-> "map", role |-> "assistant", id |-> id, model |-> model,
              usage |-> [kind |-> "map", d |-> usage]]]
L_MESSAGE == ClaudeMessage(START, 1, <<"c", "l", "a", "u", "d", "e", "-", "3", "-", "5", "-", "s", "o", "n", "n", "e", "t">>, [input_tokens |-> 7, output_tokens |-> 1])
L_INVALID ==
    [json |-> "invalid", ts |-> 0,
     msg |-> [kind |-> "absent", role |-> "", id |-> 0, model |-> <<>>, usage |-> NO_USAGE]]
L_SCALAR == [L_INVALID EXCEPT !.json = "scalar"]

CLAUDE_LINES == {L_MESSAGE, L_INVALID, L_SCALAR}

\* the records the coding tools have written
ToolLines ==
    TotalLines(codex_files, Len(codex_files)) + TotalLines(claude_files, Len(claude_files))
    + Len(opencode_db)

NextParsers ==
    \/ /\ ToolLines < MaxRecords
       /\ \E f \in 1..(Len(codex_files) + 1), line \in CODEX_LINES : WriteCodexLine(f, line)
    \/ /\ ToolLines < MaxRecords
       /\ \E f \in 1..(Len(claude_files) + 1), line \in CLAUDE_LINES : WriteClaudeLine(f, line)
    \/ Collect(0, 0)
    \/ Deliver

SpecParsers == Init /\ [][NextParsers]_vars

(***************************************************************************)
(* Records at and around the bounds of a time range, in every source.      *)
(***************************************************************************)
X_EARLY == CodexTokens(START - 1, [input_tokens |-> 2])
L_EARLY == ClaudeMessage(START - 1, 2, <<"c", "l", "a", "u", "d", "e", "-", "3", "-", "5", "-", "s", "o", "n", "n", "e", "t">>, [input_tokens |-> 3])

\* a row of the message table
OpenCodeRow(modelID, providerID, tokens, time_created) ==
    [data |-> [json |-> "object", tokens |-> [kind |-> "map", d |-> tokens],
               modelID |-> modelID, providerID |-> providerID],
     time_created |-> time_created]
\* rows created at the instant START and a millisecond before it
R_AT == OpenCodeRow(<<"k", "i", "m", "i", "-", "k", "2", "p", "5">>, <<"M", "o", "o", "n", "s", "h", "o", "t", "A", "I">>, [input |-> 5], START * MS)
R_BEFORE == OpenCodeRow(<<"k", "i", "m", "i", "-", "k", "2", "p", "5">>, <<"M", "o", "o", "n", "s", "h", "o", "t", "A", "I">>, [input |-> 5], START * MS - 1)

\* the records all sources have written
Records == ToolLines + TotalLines(session_files, Len(session_files))

NextRange ==
    \/ Records < MaxRecords /\ \E line \in {S_COST_A, S_ALIAS} : WriteSessionLine(1, line)
    \/ Records < MaxRecords /\ \E line \in {X_EARLY, X_TOKENS} : WriteCodexLine(1, line)
    \/ Records < MaxRecords /\ \E line \in {L_EARLY, L_MESSAGE} : WriteClaudeLine(1, line)
    \/ Records < MaxRecords /\ \E row \in {R_BEFORE, R_AT} : WriteOpenCodeRow(row)
    \/ \E s \in SESSION_BOUNDS, u \in SESSION_BOUNDS : GetSessionUsage(s, u)
    \/ \E s \in SESSION_BOUNDS, u \in SESSION_BOUNDS : Collect(s, u)
    \/ Deliver

SpecRange == Init /\ [][NextRange]_vars

(***************************************************************************)
(* Logs of all four sources, read by compute_usage.                        *)
(***************************************************************************)
\* a session message of a model the pricing table has
U_PRICED ==
    SessionLine(START, <<"a", "n", "t", "h", "r", "o", "p", "i", "c">>, <<"c", "l", "a", "u", "d", "e", "-", "3", "-", "5", "-", "s", "o", "n", "n", "e", "t">>,
                [input |-> 1000, output |-> 2, cacheRead |-> 4])
\* rows of a model the pricing table does not have, the second without tokens
R_MYSTERY == OpenCodeRow(<<"m", "y", "s", "t", "e", "r", "y">>, <<>>, [input |-> 5], START * MS)
R_ZERO == OpenCodeRow(<<"m", "y", "s", "t", "e", "r", "y">>, <<>>, [input |-> 0, output |-> 0], START * MS)

USAGE_PERIODS == {<<"t", "o", "d", "a", "y">>, <<"w", "e", "e", "k">>, <<"m", "o", "n", "t", "h">>}

NextUsage ==
    \/ Records < MaxRecords /\ \E line \in {U_PRICED, S_COST_A, S_ZERO} : WriteSessionLine(1, line)
    \/ Records < MaxRecords /\ WriteCodexLine(1, X_TOKENS)
    \/ Records < MaxRecords /\ WriteClaudeLine(1, L_MESSAGE)
    \/ Records < MaxRecords /\ \E row \in {R_MYSTERY, R_ZERO} : WriteOpenCodeRow(row)
    \/ \E period \in USAGE_PERIODS : ComputeUsage(period)
    \/ GetSessionUsage(0, 0)
    \/ Deliver

SpecUsage == Init /\ [][NextUsage]_vars

(***************************************************************************)
(* A long session that moves from model to model, next to one Codex and    *)
(* one Claude record: the n-th message is of the n-th model of CHAIN or    *)
(* stays with the one before it.                                           *)
(***************************************************************************)
CHAIN ==
    << <<<<>>, <<"g", "p", "t", "-", "4", "o", "-", "m", "i", "n", "i">>, [input |-> 1000, output |-> 2]>>,
       <<<<>>, <<"m", "y", "s", "t", "e", "r", "y">>, [input |-> 1, cost |-> FLit(1, 10)]>>,
       <<<<>>, <<"c", "l", "a", "u", "d", "e", "-", "3", "-", "5", "-", "s", "o", "n", "n", "e", "t">>, [input |-> 1000, output |-> 2, cacheRead |-> 4]>>,
       <<<<"M", "o", "o", "n", "s", "h", "o", "t", "A", "I">>, <<"k", "i", "m", "i", "-", "k", "2", "p", "5">>, [input |-> 5]>>,
       <<<<>>, <<"g", "p", "t", "-", "5", ".", "3", "-", "c", "o", "d", "e", "x">>, [input |-> 2]>>,
       <<<<>>, <<"m", "6">>, [output |-> 2, totalCost |-> FLit(1, 4)]>>,
       <<<<>>, <<"m", "7">>, [input |-> 1, cost |-> FLit(3, 2)]>> >>

ChainLine(n) == SessionLine(START, CHAIN[n][1], CHAIN[n][2], CHAIN[n][3])

ChainNext(written) == {written, written + 1} \cap (1..Len(CHAIN))

NextCombined ==
    \/ \E n \in ChainNext(TotalLines(session_files, Len(session_files))) :
          WriteSessionLine(1, ChainLine(n))
    \/ codex_files = <<>> /\ WriteCodexLine(1, X_TOKENS)
    \/ claude_files = <<>> /\ WriteClaudeLine(1, L_MESSAGE)
    \/ ComputeUsage(<<"t", "o", "d", "a", "y">>)
    \/ Deliver

SpecCombined == Init /\ [][NextCombined]_vars

(***************************************************************************)
(* The period functions on every day of a month, with no logs written.     *)
(***************************************************************************)
\* the instants of the days from that of START to the same day a month on
NOWS == START..(START + DAYS_PER_MONTH * TICKS_PER_DAY)

InitPeriod ==
    /\ session_files = <<>>
    /\ codex_files = <<>>
    /\ claude_files = <<>>
    /\ opencode_db = <<>>
    /\ roots = {}
    /\ now \in NOWS
    /\ response = IDLE
    /\ ServiceInit

\* a caller runs period_to_range_args(period)
PeriodToRangeArgs(period) ==
    /\ response = IDLE
    /\ response' = [op |-> "period_to_range_args", period |-> period,
                    out |-> period_to_range_args(period, now)]
    /\ UNCHANGED <<session_files, codex_files, claude_files, opencode_db, roots, now, service>>

\* a caller runs get_session_data(period); call is the source function it
\* goes through
GetSessionData(period) ==
    /\ response = IDLE
    /\ response' = [op |-> "get_session_data", period |-> period,
                    call |-> SessionCall(period),
                    out |-> get_session_data(session_files, period, now)]
    /\ UNCHANGED <<session_files, codex_files, claude_files, opencode_db, roots, now, service>>

\* the period strings asked for: the names of the table, integers with and
\* without sign, blanks and underscore, strings that are neither, and a day
\* count that reaches back before the first day of the calendar
PERIODS ==
    {<<"t", "o", "d", "a", "y">>, <<"3", "d", "a", "y", "s">>, <<"w", "e", "e", "k">>, <<"1", "4", "d", "a", "y", "s">>, <<"m", "o", "n", "t", "h">>, <<"3", "0">>, <<"1">>, <<"2">>, <<"0">>, <<"-", "5">>, <<" ", "7", " ">>,
     <<"+", "3">>, <<"1", "_", "0">>, <<"b", "o", "g", "u", "s">>, <<>>, <<"3", "D", "a", "y", "s">>, <<"9", "9", "9", "9">>}

NextPeriod ==
    \/ \E period \in PERIODS : PeriodToRangeArgs(period)
    \/ \E period \in PERIODS : GetSessionData(period)
    \/ Deliver

SpecPeriod == InitPeriod /\ [][NextPeriod]_vars

(***************************************************************************)
(* Records of yesterday, of the current instant and of later today, read   *)
(* by compute_usage for "today" and for a number of days.                  *)
(***************************************************************************)
\* the last instant of yesterday and the last instant of today
YESTERDAY == Midnight(START) - 1
LATER_TODAY == Midnight(START) + TICKS_PER_DAY - 1

WINDOW_TIMES == {YESTERDAY, START, LATER_TODAY}

\* a session message of one input token and a Codex event of two
WindowSessionLine(ts) == SessionLine(ts, <<>>, <<"m", "y", "s", "t", "e", "r", "y">>, [input |-> 1])
WindowCodexLine(ts) == CodexTokens(ts, [input_tokens |-> 2])

WINDOW_PERIODS == {<<"t", "o", "d", "a", "y">>, <<"1">>, <<"2">>}

NextWindow ==
    \/ Records < MaxRecords /\ \E ts \in WINDOW_TIMES : WriteSessionLine(1, WindowSessionLine(ts))
    \/ Records < MaxRecords /\ \E ts \in WINDOW_TIMES : WriteCodexLine(1, WindowCodexLine(ts))
    \/ \E period \in WINDOW_PERIODS : ComputeUsage(period)
    \/ Deliver

SpecWindow == Init /\ [][NextWindow]_vars

(***************************************************************************)
(* Calls of get_cost for the keys of the pricing table, for spellings of   *)
(* them and for the spellings of Kimi K2.5.                                *)
(***************************************************************************)
\* <<a spelling, the key of the pricing table it is a spelling of>>: with a
\* provider prefix, in upper case, capitalised, with a dashed and an undashed
\* release date, and with all of these
VARIANTS ==
    {<<<<"o", "p", "e", "n", "a", "i", "/", "g", "p", "t", "-", "4", "o", "-", "m", "i", "n", "i">>, <<"g", "p", "t", "-", "4", "o", "-", "m", "i", "n", "i">>>>,
     <<<<"G", "P", "T", "-", "4", "O", "-", "M", "I", "N", "I">>, <<"g", "p", "t", "-", "4", "o", "-", "m", "i", "n", "i">>>>,
     <<<<"G", "p", "t", "-", "4", "O", "-", "M", "i", "n", "i">>, <<"g", "p", "t", "-", "4", "o", "-", "m", "i", "n", "i">>>>,
     <<<<"g", "p", "t", "-", "4", "o", "-", "m", "i", "n", "i", "-", "2", "0", "2", "4", "-", "0", "7", "-", "1", "8">>, <<"g", "p", "t", "-", "4", "o", "-", "m", "i", "n", "i">>>>,
     <<<<"g", "p", "t", "-", "4", "o", "-", "m", "i", "n", "i", "-", "2", "0", "2", "4", "0", "7", "1", "8">>, <<"g", "p", "t", "-", "4", "o", "-", "m", "i", "n", "i">>>>,
     <<<<"o", "p", "e", "n", "a", "i", "/", "G", "p", "t", "-", "4", "O", "-", "M", "i", "n", "i", "-", "2", "0", "2", "4", "-", "0", "7", "-", "1", "8">>, <<"g", "p", "t", "-", "4", "o", "-", "m", "i", "n", "i">>>>,
     <<<<"a", "n", "t", "h", "r", "o", "p", "i", "c", "/", "c", "l", "a", "u", "d", "e", "-", "3", ".", "5", "-", "s", "o", "n", "n", "e", "t">>, <<"c", "l", "a", "u", "d", "e", "-", "3", ".", "5", "-", "s", "o", "n", "n", "e", "t">>>>,
     <<<<"C", "L", "A", "U", "D", "E", "-", "3", ".", "5", "-", "S", "O", "N", "N", "E", "T">>, <<"c", "l", "a", "u", "d", "e", "-", "3", ".", "5", "-", "s", "o", "n", "n", "e", "t">>>>,
     <<<<"C", "l", "a", "u", "d", "e", "-", "3", ".", "5", "-", "S", "o", "n", "n", "e", "t">>, <<"c", "l", "a", "u", "d", "e", "-", "3", ".", "5", "-", "s", "o", "n", "n", "e", "t">>>>,
     <<<<"c", "l", "a", "u", "d", "e", "-", "3", ".", "5", "-", "s", "o", "n", "n", "e", "t", "-", "2", "0", "2", "4", "-", "0", "7", "-", "1", "8">>, <<"c", "l", "a", "u", "d", "e", "-", "3", ".", "5", "-", "s", "o", "n", "n", "e", "t">>>>,
     <<<<"c", "l", "a", "u", "d", "e", "-", "3", ".", "5", "-", "s", "o", "n", "n", "e", "t", "-", "2", "0", "2", "4", "0", "7", "1", "8">>, <<"c", "l", "a", "u", "d", "e", "-", "3", ".", "5", "-", "s", "o", "n", "n", "e", "t">>>>,
     <<<<"a", "n", "t", "h", "r", "o", "p", "i", "c", "/", "C", "l", "a", "u", "d", "e", "-", "3", ".", "5", "-", "S", "o", "n", "n", "e", "t", "-", "2", "0", "2", "4", "-", "0", "7", "-", "1", "8">>, <<"c", "l", "a", "u", "d", "e", "-", "3", ".", "5", "-", "s", "o", "n", "n", "e", "t">>>>,
     <<<<"m", "o", "o", "n", "s", "h", "o", "t", "a", "i", "/", "k", "i", "m", "i", "-", "k", "2", ".", "5">>, <<"k", "i", "m", "i", "-", "k", "2", ".", "5">>>>,
     <<<<"K", "I", "M", "I", "-", "K", "2", ".", "5">>, <<"k", "i", "m", "i", "-", "k", "2", ".", "5">>>>,
     <<<<"K", "i", "m", "i", "-", "K", "2", ".", "5">>, <<"k", "i", "m", "i", "-", "k", "2", ".", "5">>>>,
     <<<<"k", "i", "m", "i", "-", "k", "2", ".", "5", "-", "2", "0", "2", "4", "-", "0", "7", "-", "1", "8">>, <<"k", "i", "m", "i", "-", "k", "2", ".", "5">>>>,
     <<<<"k", "i", "m", "i", "-", "k", "2", ".", "5", "-", "2", "0", "2", "4", "0", "7", "1", "8">>, <<"k", "i", "m", "i", "-", "k", "2", ".", "5">>>>,
     <<<<"m", "o", "o", "n", "s", "h", "o", "t", "a", "i", "/", "K", "i", "m", "i", "-", "K", "2", ".", "5", "-", "2", "0", "2", "4", "-", "0", "7", "-", "1", "8">>, <<"k", "i", "m", "i", "-", "k", "2", ".", "5">>>>,
     <<<<"o", "p", "e", "n", "a", "i", "/", "g", "p", "t", "-", "5", ".", "3", "-", "c", "o", "d", "e", "x">>, <<"g", "p", "t", "-", "5", ".", "3", "-", "c", "o", "d", "e", "x">>>>,
     <<<<"G", "P", "T", "-", "5", ".", "3", "-", "C", "O", "D", "E", "X">>, <<"g", "p", "t", "-", "5", ".", "3", "-", "c", "o", "d", "e", "x">>>>,
     <<<<"G", "p", "t", "-", "5", ".", "3", "-", "C", "o", "d", "e", "x">>, <<"g", "p", "t", "-", "5", ".", "3", "-", "c", "o", "d", "e", "x">>>>,
     <<<<"g", "p", "t", "-", "5", ".", "3", "-", "c", "o", "d", "e", "x", "-", "2", "0", "2", "4", "-", "0", "7", "-", "1", "8">>, <<"g", "p", "t", "-", "5", ".", "3", "-", "c", "o", "d", "e", "x">>>>,
     <<<<"g", "p", "t", "-", "5", ".", "3", "-", "c", "o", "d", "e", "x", "-", "2", "0", "2", "4", "0", "7", "1", "8">>, <<"g", "p", "t", "-", "5", ".", "3", "-", "c", "o", "d", "e", "x">>>>,
     <<<<"o", "p", "e", "n", "a", "i", "/", "G", "p", "t", "-", "5", ".", "3", "-", "C", "o", "d", "e", "x", "-", "2", "0", "2", "4", "-", "0", "7", "-", "1", "8">>, <<"g", "p", "t", "-", "5", ".", "3", "-", "c", "o", "d", "e", "x">>>>,
     <<<<"m", "i", "n", "i", "m", "a", "x", "/", "M", "i", "n", "i", "M", "a", "x", "-", "M", "2", ".", "5">>, <<"m", "i", "n", "i", "m", "a", "x", "-", "m", "2", ".", "5">>>>,
     <<<<"M", "I", "N", "I", "M", "A", "X", "-", "M", "2", ".", "5">>, <<"m", "i", "n", "i", "m", "a", "x", "-", "m", "2", ".", "5">>>>,
     <<<<"M", "i", "n", "i", "m", "a", "x", "-", "M", "2", ".", "5">>, <<"m", "i", "n", "i", "m", "a", "x", "-", "m", "2", ".", "5">>>>,
     <<<<"m", "i", "n", "i", "m", "a", "x", "-", "m", "2", ".", "5", "-", "2", "0", "2", "4", "-", "0", "7", "-", "1", "8">>, <<"m", "i", "n", "i", "m", "a", "x", "-", "m", "2", ".", "5">>>>,
     <<<<"m", "i", "n", "i", "m", "a", "x", "-", "m", "2", ".", "5", "-", "2", "0", "2", "4", "0", "7", "1", "8">>, <<"m", "i", "n", "i", "m", "a", "x", "-", "m", "2", ".", "5">>>>,
     <<<<"m", "i", "n", "i", "m", "a", "x", "/", "M", "i", "n", "i", "m", "a", "x", "-", "M", "2", ".", "5", "-", "2", "0", "2", "4", "-", "0", "7", "-", "1", "8">>, <<"m", "i", "n", "i", "m", "a", "x", "-", "m", "2", ".", "5">>>>}

KIMI_SPELLINGS == {<<"k", "i", "m", "i", "-", "k", "2", ".", "5">>, <<"v", "o", "l", "-", "e", "n", "g", "i", "n", "e", "/", "k", "i", "m", "i", "-", "2", ".", "5">>, <<"k", "2", ".", "5">>, <<"M", "o", "o", "n", "s", "h", "o", "t", "A", "I", "/", "K", "I", "M", "I", "_", "K", "2", "P", "5">>}

PRICED_NAMES == DOMAIN pricing \cup {v[1] : v \in VARIANTS} \cup KIMI_SPELLINGS

\* <<input_tokens, output_tokens, cache_read, cache_write>>
TOKEN_COUNTS == {<<1000, 2000, 300, 400>>, <<1000, 2000, 0, 0>>, <<1, 0, 0, 0>>, <<0, 0, 1, 0>>, <<0, 0, 0, 1>>}

\* a caller runs pricing_db.get_cost(model, *tokens)
GetCost(model, tokens) ==
    /\ response = IDLE
    /\ response' = [op |-> "get_cost", model |-> model, tokens |-> tokens,
                    out |-> get_cost(model, tokens[1], tokens[2], tokens[3], tokens[4])]
    /\ UNCHANGED <<session_files, codex_files, claude_files, opencode_db, roots, now, service>>

NextPricing ==
    \/ \E model \in PRICED_NAMES, tokens \in TOKEN_COUNTS : GetCost(model, tokens)
    \/ Deliver

SpecPricing == Init /\ [][NextPricing]_vars

(***************************************************************************)
(* Calls of normalize_model_name for raw identifiers made of a provider    *)
(* prefix chain, a spelling of a model and trailing release noise.         *)
(***************************************************************************)
PREFIX_CHAINS == {<<>>, <<"o", "p", "e", "n", "a", "i", "/">>, <<"o", "p", "e", "n", "r", "o", "u", "t", "e", "r", "/", "o", "p", "e", "n", "a", "i", "/">>, <<"K", "i", "m", "i", "-", "C", "o", "d", "i", "n", "g", "/">>}

\* <<a spelling, the model it names>>: spellings of one model differ in case,
\* punctuation, a models: head, a -latest/-preview suffix or an entry of
\* alias_map; gemini-2.5-flash-preview-tts and kimi-k2.5-turbo are models of
\* their own
STEMS ==
    {<<<<"g", "p", "t", "-", "4", "o", "-", "m", "i", "n", "i">>, <<"g", "p", "t", "-", "4", "o", "-", "m", "i", "n", "i">>>>,
     <<<<"G", "P", "T", "_", "4", "O", "_", "M", "I", "N", "I">>, <<"g", "p", "t", "-", "4", "o", "-", "m", "i", "n", "i">>>>,
     <<<<"g", "p", "t", "-", "4", "o", "-", "m", "i", "n", "i", "-", "l", "a", "t", "e", "s", "t">>, <<"g", "p", "t", "-", "4", "o", "-", "m", "i", "n", "i">>>>,
     <<<<"g", "p", "t", "-", "4", "o">>, <<"g", "p", "t", "-", "4", "o">>>>,
     <<<<"m", "o", "d", "e", "l", "s", ":", "g", "p", "t", "-", "4", "o">>, <<"g", "p", "t", "-", "4", "o">>>>,
     <<<<"c", "l", "a", "u", "d", "e", "-", "s", "o", "n", "n", "e", "t", "-", "4", "-", "5">>, <<"c", "l", "a", "u", "d", "e", "-", "s", "o", "n", "n", "e", "t", "-", "4", ".", "5">>>>,
     <<<<"C", "l", "a", "u", "d", "e", " ", "S", "o", "n", "n", "e", "t", " ", "4", ".", "5">>, <<"c", "l", "a", "u", "d", "e", "-", "s", "o", "n", "n", "e", "t", "-", "4", ".", "5">>>>,
     <<<<"c", "l", "a", "u", "d", "e", "-", "3", "-", "5", "-", "s", "o", "n", "n", "e", "t">>, <<"c", "l", "a", "u", "d", "e", "-", "3", ".", "5", "-", "s", "o", "n", "n", "e", "t">>>>,
     <<<<"c", "l", "a", "u", "d", "e", "-", "3", ".", "5", "-", "s", "o", "n", "n", "e", "t">>, <<"c", "l", "a", "u", "d", "e", "-", "3", ".", "5", "-", "s", "o", "n", "n", "e", "t">>>>,
     <<<<"g", "e", "m", "i", "n", "i", "-", "3", "-", "p", "r", "o">>, <<"g", "e", "m", "i", "n", "i", "-", "3", "-", "p", "r", "o">>>>,
     <<<<"g", "e", "m", "i", "n", "i", "-", "3", "-", "p", "r", "o", "-", "h", "i", "g", "h">>, <<"g", "e", "m", "i", "n", "i", "-", "3", "-", "p", "r", "o">>>>,
     <<<<"g", "e", "m", "i", "n", "i", "-", "3", "-", "p", "r", "o", "-", "p", "r", "e", "v", "i", "e", "w">>, <<"g", "e", "m", "i", "n", "i", "-", "3", "-", "p", "r", "o">>>>,
     <<<<"g", "e", "m", "i", "n", "i", "-", "2", ".", "5", "-", "f", "l", "a", "s", "h">>, <<"g", "e", "m", "i", "n", "i", "-", "2", ".", "5", "-", "f", "l", "a", "s", "h">>>>,
     <<<<"g", "e", "m", "i", "n", "i", "-", "2", ".", "5", "-", "f", "l", "a", "s", "h", "-", "p", "r", "e", "v", "i", "e", "w", "-", "t", "t", "s">>, <<"g", "e", "m", "i", "n", "i", "-", "2", ".", "5", "-", "f", "l", "a", "s", "h", "-", "t", "t", "s">>>>,
     <<<<"k", "2", "p", "5">>, <<"k", "i", "m", "i", "-", "k", "2", ".", "5">>>>,
     <<<<"k", "2", "-", "5">>, <<"k", "i", "m", "i", "-", "k", "2", ".", "5">>>>,
     <<<<"k", "2", ".", "5">>, <<"k", "i", "m", "i", "-", "k", "2", ".", "5">>>>,
     <<<<"k", "i", "m", "i", "2", ".", "5">>, <<"k", "i", "m", "i", "-", "k", "2", ".", "5">>>>,
     <<<<"k", "i", "m", "i", "-", "2", ".", "5">>, <<"k", "i", "m", "i", "-", "k", "2", ".", "5">>>>,
     <<<<"k", "i", "m", "i", "-", "2", "-", "5">>, <<"k", "i", "m", "i", "-", "k", "2", ".", "5">>>>,
     <<<<"K", "I", "M", "I", "-", "K", "2", "P", "5">>, <<"k", "i", "m", "i", "-", "k", "2", ".", "5">>>>,
     <<<<"k", "i", "m", "i", "-", "k", "2", ".", "5", "-", "t", "u", "r", "b", "o">>, <<"k", "i", "m", "i", "-", "k", "2", ".", "5", "-", "t", "u", "r", "b", "o">>>>}

KIMI_STEMS == {s[1] : s \in {t \in STEMS : t[2] = <<"k", "i", "m", "i", "-", "k", "2", ".", "5">>}}

\* one date stamp or -thinking, and a date stamp followed by -thinking
NOISE_SUFFIXES == {<<>>, <<"-", "2", "0", "2", "5", "-", "0", "1", "-", "0", "1">>, <<"-", "2", "0", "2", "5", "0", "1", "0", "1">>, <<"-", "t", "h", "i", "n", "k", "i", "n", "g">>, <<"-", "2", "0", "2", "5", "0", "9", "2", "9", "-", "t", "h", "i", "n", "k", "i", "n", "g">>}

\* a caller runs normalize_model_name(prefix + stem + suffix)
Normalize(prefix, stem, suffix) ==
    /\ response = IDLE
    /\ response' = [op |-> "normalize_model_name", prefix |-> prefix, stem |-> stem[1],
                    model |-> stem[2], suffix |-> suffix,
                    out |-> normalize_model_name(prefix \o stem[1] \o suffix)]
    /\ UNCHANGED <<session_files, codex_files, claude_files, opencode_db, roots, now, service>>

NextNames ==
    \/ \E prefix \in PREFIX_CHAINS, stem \in STEMS, suffix \in NOISE_SUFFIXES : Normalize(prefix, stem, suffix)
    \/ Deliver

SpecNames == Init /\ [][NextNames]_vars

(***************************************************************************)
(* Several records of one model on one day and a Codex event whose cached  *)
(* input exceeds its input, read by collect and by compute_stats.          *)
(***************************************************************************)
\* a token_count event that reports more cached input than input
X_OVERCACHED == CodexTokens(START, [input_tokens |-> 4, cached_input_tokens |-> 10, output_tokens |-> 3])

\* the year of the clock and the year after it
STATS_YEARS == {(DateOf(START) - 1) \div DAYS_PER_YEAR + 1, (DateOf(START) - 1) \div DAYS_PER_YEAR + 2}

NextDaily ==
    \/ Records < MaxRecords /\ \E line \in {WindowSessionLine(YESTERDAY), WindowSessionLine(START), U_PRICED} : WriteSessionLine(1, line)
    \/ Records < MaxRecords /\ \E line \in {X_TOKENS, X_OVERCACHED, WindowCodexLine(YESTERDAY)} : WriteCodexLine(1, line)
    \/ Collect(0, 0)
    \/ \E year \in STATS_YEARS : ComputeStats(year)
    \/ Deliver

SpecDaily == Init /\ [][NextDaily]_vars

(***************************************************************************)
(* One CodingToolsUsageTracker, collecting again and again while the       *)
(* tools write.                                                            *)
(***************************************************************************)
\* CodingToolsUsageTracker.parsers: the registry, in the order of its keys
PARSER_NAMES == <<"opencode", "codex", "claude", "gemini_cli", "amp">>

\* self.parsers.get(name), then parser.collect(since_date, until_date); the
\* roots of gemini_cli and amp do not exist; a name that is not registered
\* has no parser
ParserCollect(name, rootset, codex, claude, opencode, since_date, until_date) ==
    CASE name = "opencode" -> OpenCodeCollect("opencode" \in rootset, opencode, since_date, until_date)
      [] name = "codex" -> CodexCollect("codex" \in rootset, codex, since_date, until_date)
      [] name = "claude" -> ClaudeCollect("claude" \in rootset, claude, since_date, until_date)
      [] OTHER -> <<>>

\* the argument sources of collect: None or a list of names
NO_SOURCES == [given |-> FALSE, names |-> <<>>]
Sources(names) == [given |-> TRUE, names |-> names]

\* selected = sources or list(self.parsers.keys())
Selected(sources) ==
    IF ~sources.given \/ sources.names = <<>> THEN PARSER_NAMES ELSE sources.names

\* a tracker that kept what the earlier calls collected
KeepEntries(old) == old

\* self.entries = []
ResetEntries(old) == <<>>

\* the loop over the first n selected names: self.entries.extend(...)
RECURSIVE ExtendEntries(_, _, _, _, _, _, _, _, _)
ExtendEntries(acc, selected, n, rootset, codex, claude, opencode, since_date, until_date) ==
    IF n = 0 THEN acc
    ELSE ExtendEntries(acc, selected, n - 1, rootset, codex, claude, opencode, since_date, until_date)
         \o ParserCollect(selected[n], rootset, codex, claude, opencode, since_date, until_date)

\* the caller runs tracker.collect(since_date, until_date, sources)
TrackerCollectCall(since_date, until_date, sources) ==
    /\ response = IDLE
    /\ entries' = ExtendEntries(ResetEntries(entries), Selected(sources), Len(Selected(sources)),
                                roots, codex_files, claude_files, opencode_db,
                                since_date, until_date)
    /\ response' = [op |-> "tracker_collect", since |-> since_date, until |-> until_date,
                    sources |-> sources]
    /\ UNCHANGED <<session_files, codex_files, claude_files, opencode_db, roots, now,
                   resolved_cache, calls, _cache, requests, clock>>

\* the caller runs tracker.to_json()
ToJson ==
    /\ response = IDLE
    /\ response' = [op |-> "to_json", out |-> [entries |-> entries, total |-> Len(entries)]]
    /\ UNCHANGED <<session_files, codex_files, claude_files, opencode_db, roots, now, service>>

\* the lists of sources asked for: none, the empty list, one parser, two
\* parsers against the order of the registry, a parser twice, names that
\* are not registered
SOURCE_LISTS ==
    {NO_SOURCES, Sources(<<>>), Sources(<<"claude">>), Sources(<<"claude", "codex">>),
     Sources(<<"codex", "codex">>), Sources(<<"cursor">>), Sources(<<"cursor", "opencode">>)}

NextTracker ==
    \/ ToolLines < MaxRecords /\ \E line \in {X_TOKENS, X_EARLY} : WriteCodexLine(1, line)
    \/ ToolLines < MaxRecords /\ WriteClaudeLine(1, L_MESSAGE)
    \/ ToolLines < MaxRecords /\ WriteOpenCodeRow(R_AT)
    \/ \E since_date \in {0, START}, sources \in SOURCE_LISTS : TrackerCollectCall(since_date, 0, sources)
    \/ ToJson
    \/ Deliver

SpecTracker == Init /\ [][NextTracker]_vars

(***************************************************************************)
(* Codex session files whose turn_context and session_meta lines change    *)
(* the model and the provider between token_count events.                  *)
(***************************************************************************)
\* turn_context lines: a Claude model in capitals, a model whose name tells
\* no provider, no model at all
X_CLAUDE_CONTEXT == CodexRecord("turn_context", START, CodexPayload("", <<"C", "L", "A", "U", "D", "E", "-", "3", ".", "5", "-", "S", "O", "N", "N", "E", "T">>, NO_USAGE))
X_MYSTERY_CONTEXT == CodexRecord("turn_context", START, CodexPayload("", <<"m", "y", "s", "t", "e", "r", "y">>, NO_USAGE))
X_NO_MODEL == CodexRecord("turn_context", START, CodexPayload("", <<>>, NO_USAGE))
\* a session_meta line naming the provider
X_META ==
    CodexRecord("session_meta", START,
                [CodexPayload("", <<>>, NO_USAGE) EXCEPT !.model_provider = <<"a", "z", "u", "r", "e">>])

SESSION_FILE_LINES == {X_CONTEXT, X_CLAUDE_CONTEXT, X_MYSTERY_CONTEXT, X_NO_MODEL, X_META, X_TOKENS}

NextCodex ==
    \/ /\ ToolLines < MaxRecords
       /\ \E f \in 1..(Len(codex_files) + 1), line \in SESSION_FILE_LINES : WriteCodexLine(f, line)
    \/ Collect(0, 0)
    \/ Deliver

SpecCodex == Init /\ [][NextCodex]_vars

(***************************************************************************)
(* Claude transcripts in which a message is written several times, some of *)
(* its records before the range asked for or without tokens.               *)
(***************************************************************************)
\* records of message 1 written before START and without tokens
L_CHUNK_EARLY == ClaudeMessage(START - 1, 1, <<"c", "l", "a", "u", "d", "e", "-", "3", "-", "5", "-", "s", "o", "n", "n", "e", "t">>, [input_tokens |-> 3])
L_CHUNK_ZERO == ClaudeMessage(START, 1, <<"c", "l", "a", "u", "d", "e", "-", "3", "-", "5", "-", "s", "o", "n", "n", "e", "t">>, [input_tokens |-> 0, output_tokens |-> 0])
\* a record without a message id
L_NO_ID == ClaudeMessage(START, 0, <<"c", "l", "a", "u", "d", "e", "-", "3", "-", "5", "-", "s", "o", "n", "n", "e", "t">>, [input_tokens |-> 3])

TRANSCRIPT_LINES == {L_MESSAGE, L_CHUNK_EARLY, L_CHUNK_ZERO, L_NO_ID, L_EARLY}

NextClaude ==
    \/ /\ ToolLines < MaxRecords
       /\ \E f \in 1..(Len(claude_files) + 1), line \in TRANSCRIPT_LINES : WriteClaudeLine(f, line)
    \/ \E since_date \in {0, START} : Collect(since_date, 0)
    \/ Deliver

SpecClaude == Init /\ [][NextClaude]_vars

(***************************************************************************)
(* Lookups of names for which the stages of _resolve_pricing disagree: a   *)
(* key of the table that is also an alias, an alias whose normalised form  *)
(* is a key, a prefixed key whose base is a key too.                       *)
(***************************************************************************)
RESOLVE_PREFIXES == {<<>>, <<"a", "c", "m", "e", "/">>, <<"a", "z", "u", "r", "e", "/">>, <<"A", "z", "u", "r", "e", "/">>, <<"o", "p", "e", "n", "a", "i", "/">>}
RESOLVE_STEMS ==
    {<<"g", "p", "t", "-", "4", "o", "-", "m", "i", "n", "i">>, <<"s", "o", "n", "i", "c", "-", "1">>, <<"S", "o", "n", "i", "c", "_", "1">>, <<"s", "o", "n", "i", "c", "-", "2">>, <<"c", "l", "a", "u", "d", "e", "-", "3", "-", "5", "-", "s", "o", "n", "n", "e", "t">>,
     <<"k", "i", "m", "i", "-", "k", "2", "p", "5">>, <<"m", "y", "s", "t", "e", "r", "y">>}
RESOLVE_SUFFIXES == {<<>>, <<"-", "l", "a", "t", "e", "s", "t">>, <<"-", "2", "0", "2", "5", "-", "0", "1", "-", "0", "1">>, <<"-", "t", "h", "i", "n", "k", "i", "n", "g">>}

\* a caller runs _resolve_pricing(model) on a freshly loaded database
ResolvePricing(model) ==
    /\ response = IDLE
    /\ response' = [op |-> "_resolve_pricing", model |-> model, out |-> Resolve(model)]
    /\ UNCHANGED <<session_files, codex_files, claude_files, opencode_db, roots, now, service>>

NextResolve ==
    \/ \E prefix \in RESOLVE_PREFIXES, stem \in RESOLVE_STEMS, suffix \in RESOLVE_SUFFIXES :
           ResolvePricing(prefix \o stem \o suffix)
    \/ Deliver

SpecResolve == Init /\ [][NextResolve]_vars

(***************************************************************************)
(* Entries whose provider and model together are a key of the pricing      *)
(* table, priced by the parsers and again by parse_entries_json.           *)
(***************************************************************************)
\* a row of the model gpt-4o-mini served by the provider azure
R_AZURE == OpenCodeRow(<<"g", "p", "t", "-", "4", "o", "-", "m", "i", "n", "i">>, <<"a", "z", "u", "r", "e">>, [input |-> 1000], START * MS)

NextCost ==
    \/ ToolLines < MaxRecords /\ \E line \in {X_CONTEXT, X_META, X_TOKENS} : WriteCodexLine(1, line)
    \/ ToolLines < MaxRecords /\ WriteClaudeLine(1, L_MESSAGE)
    \/ ToolLines < MaxRecords /\ \E row \in {R_AT, R_AZURE} : WriteOpenCodeRow(row)
    \/ Collect(0, 0)
    \/ Deliver

SpecCost == Init /\ [][NextCost]_vars

(***************************************************************************)
(* One PricingDatabase whose _resolve_pricing is called by several threads.*)
(* A call is three steps, between which the other calls may run:           *)
(*   cached = self._resolved_cache.get(model)                              *)
(*   if cached is not None or model in self._resolved_cache: return cached *)
(*   the lookup, self._resolved_cache[model] = p, return p                 *)
(***************************************************************************)
\* the names the threads look up: a key, an alias, a name without price
RESOLVED_NAMES == {<<"g", "p", "t", "-", "4", "o", "-", "m", "i", "n", "i">>, <<"s", "o", "n", "i", "c", "-", "1", "-", "l", "a", "t", "e", "s", "t">>, <<"m", "y", "s", "t", "e", "r", "y">>}

\* cached = self._resolved_cache.get(model)
ResolveGet(c, model) ==
    /\ calls[c] = IDLE
    /\ calls' = [calls EXCEPT ![c] = [op |-> "get", model |-> model,
                                      cached |-> Get(resolved_cache, model, NONE)]]
    /\ UNCHANGED <<session_files, codex_files, claude_files, opencode_db, roots, now, response,
                   entries, resolved_cache, _cache, requests, clock>>

\* if cached is not None or model in self._resolved_cache: return cached
ResolveCheck(c) ==
    /\ calls[c] # IDLE
    /\ calls[c].op = "get"
    /\ IF calls[c].cached # NONE \/ calls[c].model \in DOMAIN resolved_cache
       THEN /\ calls' = [calls EXCEPT ![c] = IDLE]
            /\ response' = [op |-> "_resolve_pricing", model |-> calls[c].model,
                            out |-> calls[c].cached]
       ELSE /\ calls' = [calls EXCEPT ![c] = [op |-> "lookup", model |-> calls[c].model]]
            /\ UNCHANGED response
    /\ UNCHANGED <<session_files, codex_files, claude_files, opencode_db, roots, now,
                   entries, resolved_cache, _cache, requests, clock>>

\* the lookup in the tables, which never change; its result is stored and
\* returned
ResolveStore(c) ==
    /\ calls[c] # IDLE
    /\ calls[c].op = "lookup"
    /\ resolved_cache' = (calls[c].model :> _resolve_pricing(calls[c].model)) @@ resolved_cache
    /\ calls' = [calls EXCEPT ![c] = IDLE]
    /\ response' = [op |-> "_resolve_pricing", model |-> calls[c].model,
                    out |-> _resolve_pricing(calls[c].model)]
    /\ UNCHANGED <<session_files, codex_files, claude_files, opencode_db, roots, now,
                   entries, _cache, requests, clock>>

NextCache ==
    \/ \E c \in CALLERS, model \in RESOLVED_NAMES : ResolveGet(c, model)
    \/ \E c \in CALLERS : ResolveCheck(c)
    \/ \E c \in CALLERS : ResolveStore(c)

SpecCache == Init /\ [][NextCache]_vars

(***************************************************************************)
(* api.py: get_usage behind get_cached_or_fetch, served by the worker      *)
(* threads of the server.  A request is three steps, between which the     *)
(* other requests, the tools and the clock may move:                       *)
(*   now = datetime.now().timestamp() and the test of the cache            *)
(*   data = fetch_fn()                                                     *)
(*   _cache[key] = (now, data), return data                                *)
(* The fetches of the requests made here do not raise.  The client takes   *)
(* each response before the next request returns.                          *)
(***************************************************************************)
CACHE_TTL == 120

\* the clock moves in steps of CLOCK_STEP seconds up to MaxClock
CLOCK_STEP == 60
MaxClock == 120

\* the tools write at most MaxWrites records while the server runs
MaxWrites == 1

\* an entry that never expires
NeverExpires(t, cached_time) == TRUE

\* now - cached_time < CACHE_TTL
Fresh(t, cached_time) == t - cached_time < CACHE_TTL

\* f"usage_{period}"
UsageKey(period) == <<"usage", period>>

\* the requests made: /api/usage?period=today
API_PERIODS == {<<"t", "o", "d", "a", "y">>}
API_KEYS == {UsageKey(period) : period \in API_PERIODS}

\* the request reads the clock and finds a fresh entry, which it returns, or
\* goes on to fetch
ApiBegin(c, key) ==
    /\ requests[c] = IDLE
    /\ response = IDLE
    /\ IF key \in DOMAIN _cache /\ Fresh(clock, _cache[key].cached_time)
       THEN /\ response' = [op |-> "api", key |-> key, cached |-> TRUE,
                            data |-> _cache[key].cached_data]
            /\ UNCHANGED requests
       ELSE /\ requests' = [requests EXCEPT ![c] = [op |-> "fetch", key |-> key, now |-> clock]]
            /\ UNCHANGED response
    /\ UNCHANGED <<session_files, codex_files, claude_files, opencode_db, roots, now,
                   entries, resolved_cache, calls, _cache, clock>>

\* the request has its data
Fetched(c, data) ==
    [requests EXCEPT ![c] = [op |-> "store", key |-> requests[c].key, now |-> requests[c].now,
                             data |-> data]]

\* get_usage: data = fetch_fn(), which is compute_usage(period)
ApiFetchUsage(c, period) ==
    /\ requests[c] # IDLE
    /\ requests[c].op = "fetch"
    /\ requests[c].key = UsageKey(period)
    /\ requests' = Fetched(c, compute_usage(session_files, roots, codex_files, claude_files,
                                            opencode_db, period, now))
    /\ UNCHANGED <<session_files, codex_files, claude_files, opencode_db, roots, now, response,
                   entries, resolved_cache, calls, _cache, clock>>

\* _cache[key] = (now, data); return data
ApiStore(c) ==
    /\ requests[c] # IDLE
    /\ requests[c].op = "store"
    /\ response = IDLE
    /\ _cache' = (requests[c].key :> [cached_time |-> requests[c].now,
                                      cached_data |-> requests[c].data]) @@ _cache
    /\ requests' = [requests EXCEPT ![c] = IDLE]
    /\ response' = [op |-> "api", key |-> requests[c].key, cached |-> FALSE,
                    data |-> requests[c].data]
    /\ UNCHANGED <<session_files, codex_files, claude_files, opencode_db, roots, now,
                   entries, resolved_cache, calls, clock>>

\* time passes
Advance ==
    /\ clock + CLOCK_STEP <= MaxClock
    /\ clock' = clock + CLOCK_STEP
    /\ UNCHANGED <<session_files, codex_files, claude_files, opencode_db, roots, now, response,
                   entries, resolved_cache, calls, _cache, requests>>

NextApi ==
    \/ ToolLines < MaxWrites /\ WriteCodexLine(1, X_TOKENS)
    \/ \E c \in CALLERS, key \in API_KEYS : ApiBegin(c, key)
    \/ \E c \in CALLERS, period \in API_PERIODS : ApiFetchUsage(c, period)
    \/ \E c \in CALLERS : ApiStore(c)
    \/ Advance
    \/ Deliver

SpecApi == Init /\ [][NextApi]_vars

(***************************************************************************)
(* Properties of get_session_usage.                                        *)
(***************************************************************************)
SessionReported == response.op = "get_session_usage" /\ ~response.out.raised

\* the entries the loop of the request in progress folded, in order
Folded ==
    SelectSeq(SessionEntries(session_files, Len(session_files), response.since),
              LAMBDA e : SessionStep(e, response.since, response.until) = "fold")

\* the value of a token dimension of an entry, under either of its names
Dim(e, key, alias) == PyOr(Get(e.usage.d, key, 0), Get(e.usage.d, alias, 0))
DimIn(e) == Dim(e, "input", "inputTokens") + Dim(e, "cacheWrite", "cacheWriteTokens")
DimOut(e) == Dim(e, "output", "outputTokens")
DimCache(e) == Dim(e, "cacheRead", "cacheReadTokens")

\* the canonical name for the alias name and the alias for the canonical one
SwapKey(k) ==
    CASE k = "input" -> "inputTokens" [] k = "inputTokens" -> "input"
      [] k = "output" -> "outputTokens" [] k = "outputTokens" -> "output"
      [] k = "cacheRead" -> "cacheReadTokens" [] k = "cacheReadTokens" -> "cacheRead"
      [] k = "cacheWrite" -> "cacheWriteTokens" [] k = "cacheWriteTokens" -> "cacheWrite"
      [] OTHER -> k

SwapNames(line) ==
    [line EXCEPT !.usage.d = [k \in {SwapKey(k0) : k0 \in DOMAIN @} |-> @[SwapKey(k)]]]

SwapFiles(files) ==
    [f \in 1..Len(files) |->
        [files[f] EXCEPT !.lines = [i \in 1..Len(@) |-> SwapNames(@[i])]]]

\* C1: after get_session_usage folds assistant messages, every model bucket
\* has tokens_in = sum(input + cacheWrite), tokens_out = sum(output),
\* tokens_cache = sum(cacheRead) and tokens = their sum over the messages
\* of that model (and every such model has a bucket); the day records carry
\* the same sums in tokenBreakdown and totals.tokens; and the report is the
\* same when every message spells its fields with the other set of names
\* (canonical for alias, alias for canonical).
C1_TokenSums ==
    SessionReported =>
      /\ \A j \in 1..Len(Folded) :
            \E i \in 1..Len(response.out.models) :
                response.out.models[i].name = SessionModel(Folded[j])
      /\ \A i \in 1..Len(response.out.models) :
            LET m == response.out.models[i]
                mine == SelectSeq(Folded, LAMBDA e : SessionModel(e) = m.name)
            IN /\ m.tokens_in = SumInts(mine, DimIn)
               /\ m.tokens_out = SumInts(mine, DimOut)
               /\ m.tokens_cache = SumInts(mine, DimCache)
               /\ m.tokens = m.tokens_in + m.tokens_out + m.tokens_cache
      /\ \A i \in 1..Len(response.out.contributions) :
            LET c == response.out.contributions[i]
                mine == SelectSeq(Folded, LAMBDA e : DateOf(e.ts) = c.date)
            IN /\ c.tokenBreakdown.input = SumInts(mine, DimIn)
               /\ c.tokenBreakdown.output = SumInts(mine, DimOut)
               /\ c.tokenBreakdown.cacheRead = SumInts(mine, DimCache)
               /\ c.totals.tokens = SumInts(mine, DimIn) + SumInts(mine, DimOut)
                                    + SumInts(mine, DimCache)
      /\ get_session_usage(SwapFiles(session_files), response.since, response.until)
         = response.out

\* a report over a canonical and an alias message of one model, whose
\* bucket counts the cache writes of both as input
C1_Witness ==
    /\ SessionReported
    /\ \E i \in 1..Len(response.out.models) :
          /\ response.out.models[i].messages = 2
          /\ response.out.models[i].tokens_in = 1000 + 3 + 5 + 11
          /\ response.out.models[i].tokens_cache = 4 + 13

\* every report of get_session_usage is the report over any permutation of
\* the entries: the same grand totals and the same per-model sums
SameSums(a, b) ==
    /\ a.total_tokens = b.total_tokens
    /\ a.total_cost = b.total_cost
    /\ a.total_messages = b.total_messages
    /\ {a.models[i] : i \in 1..Len(a.models)} = {b.models[i] : i \in 1..Len(b.models)}

\* C2: aggregation is order-independent: for every permutation of the
\* entries the session-log fold yields identical grand totals and identical
\* per-model sums of tokens, tokens_in, tokens_out, tokens_cache, cost and
\* messages.
C2_OrderIndependent ==
    SessionReported =>
      LET es == SessionEntries(session_files, Len(session_files), response.since) IN
      \A p \in Permutations(1..Len(es)) :
          SameSums(UsageOfEntries([i \in 1..Len(es) |-> es[p[i]]],
                                  response.since, response.until),
                   response.out)

\* an entry whose token dimensions are all zero
AllZero(line) ==
    /\ line.json = "object" /\ line.msg = "map" /\ line.usage.kind = "map"
    /\ DOMAIN line.usage.d # {}
    /\ DimIn(line) = 0 /\ DimOut(line) = 0 /\ DimCache(line) = 0

WithoutLines(files, Dropped(_)) ==
    [f \in 1..Len(files) |->
        [files[f] EXCEPT !.lines = SelectSeq(@, LAMBDA l : ~Dropped(l))]]

\* C3: an entry whose token dimensions are all zero is suppressed before
\* aggregation in get_session_usage: the report is the one the logs give
\* without the entry (no message counted, no model row, no day record).
C3_ZeroSuppressed ==
    SessionReported =>
      get_session_usage(WithoutLines(session_files, AllZero), response.since, response.until)
      = response.out

Malformed(line) ==
    line.json # "object" \/ line.msg = "nonmap" \/ line.usage.kind = "nonmap"

\* C8: get_session_usage never raises: for any content of the session files
\* it returns the report of the well-formed records, skipping lines that
\* are not JSON, JSON values that are not objects, and records whose
\* message or usage is not a mapping.
C8_NeverRaises ==
    response.op = "get_session_usage" =>
      /\ ~response.out.raised
      /\ response.out = get_session_usage(WithoutLines(session_files, Malformed),
                                          response.since, response.until)

(***************************************************************************)
(* Properties of the Codex and Claude parsers.                             *)
(***************************************************************************)
Collected == response.op = "collect"

\* a line that does not parse, or parses to a JSON value that is no object
MalformedRecord(line) == line.json # "object"

\* C9: in the Codex and Claude parsers a malformed record (an unparseable
\* line, or a JSON value that is not an object) is skipped on its own: the
\* entries collected are exactly those the logs give without the malformed
\* records; and a parser whose root directory is missing yields no entries.
C9_SkippedOnItsOwn ==
    Collected =>
      /\ response.out
         = TrackerCollect(roots, WithoutLines(codex_files, MalformedRecord),
                          WithoutLines(claude_files, MalformedRecord), opencode_db,
                          response.since, response.until)
      /\ \A i \in 1..Len(response.out) :
            /\ response.out[i].source = <<"c", "o", "d", "e", "x">> => "codex" \in roots
            /\ response.out[i].source = <<"c", "l", "a", "u", "d", "e">> => "claude" \in roots

(***************************************************************************)
(* Properties of the time range.                                           *)
(***************************************************************************)
\* t is in [s, u), an absent (0) bound being unbounded
HalfOpen(t, s, u) == (s = 0 \/ t >= s) /\ (u = 0 \/ t < u)
\* t is in [s, u]
Closed(t, s, u) == (s = 0 \/ t >= s) /\ (u = 0 \/ t <= u)

\* the entries of all coding tools with no bounds, then filtered to the
\* half-open range of the request in progress
CollectedHalfOpen ==
    SelectSeq(TrackerCollect(roots, codex_files, claude_files, opencode_db, 0, 0),
              LAMBDA e : HalfOpen(e.timestamp, response.since * MS, response.until * MS))

\* the report with no bounds of the session lines whose timestamp In(_) accepts
SessionReportOf(In(_)) ==
    get_session_usage(WithoutLines(session_files, LAMBDA l : ~In(l.ts)), 0, 0)

\* C10 (as the code has it): the coding-tool parsers (BaseParser._in_range)
\* and the OpenCode database query filter to the half-open interval
\* [since, until), while get_session_usage filters to the closed interval
\* [since, until]: an entry whose timestamp equals until is excluded by the
\* former and included by the latter; an entry whose timestamp equals since
\* is included by all, and an absent bound is unbounded on that side.
C10_Ranges ==
    /\ Collected => response.out = CollectedHalfOpen
    /\ SessionReported =>
          response.out = SessionReportOf(LAMBDA t : Closed(t, response.since, response.until))

\* a collection bounded on both sides where a record stamped since is
\* included and a record stamped until is excluded
C10_Witness ==
    /\ Collected /\ response.since = START - 1 /\ response.until = START
    /\ Len(response.out) = 1 /\ response.out[1].timestamp = response.since * MS
    /\ Len(TrackerCollect(roots, codex_files, claude_files, opencode_db, 0, 0)) = 2

\* C10 as stated: every usage source, get_session_usage included, filters
\* to the half-open interval [since, until).
C10_HalfOpenEverywhere ==
    /\ Collected => response.out = CollectedHalfOpen
    /\ SessionReported =>
          response.out = SessionReportOf(LAMBDA t : HalfOpen(t, response.since, response.until))

(***************************************************************************)
(* Properties of compute_usage.                                            *)
(***************************************************************************)
UsageReported == response.op = "compute_usage" /\ ~response.out.raised

\* a row all of whose token dimensions are zero
AllZeroRow(r) == r.tokens_in = 0 /\ r.tokens_out = 0 /\ r.tokens_cache = 0

NoZeroRow(rows) == \A i \in 1..Len(rows) : ~AllZeroRow(rows[i])

\* C4: in the object compute_usage returns, a row whose token dimensions
\* are all zero never appears in coding_models, openclaw_models or
\* combined_models, whatever the raw entries were.
C4_NoZeroRows ==
    UsageReported =>
      /\ NoZeroRow(response.out.coding_models)
      /\ NoZeroRow(response.out.openclaw_models)
      /\ NoZeroRow(response.out.combined_models)

\* the session report of the period has a model row without tokens, and
\* the coding tools an entry without tokens, that the lists do not show
C4_Witness ==
    /\ UsageReported
    /\ \E i \in 1..Len(get_session_data(session_files, response.period, now).models) :
          AllZeroRow(get_session_data(session_files, response.period, now).models[i])
    /\ response.out.openclaw_models = <<>>
    /\ R_ZERO \in Range(opencode_db)
    /\ response.out.coding_models # <<>>

\* C5: in the object compute_usage returns the three views agree on the
\* grand token total: total_tokens equals the sum of tokens over all
\* by_tool entries and the sum of tokens over all combined_models rows.
C5_TotalsAgree ==
    UsageReported =>
      /\ response.out.total_tokens = SumInts(response.out.by_tool, LAMBDA t : t[2].tokens)
      /\ response.out.total_tokens = SumInts(response.out.combined_models, LAMBDA r : r.tokens)

\* a report where an invisible row was dropped and two rows were merged
\* under one canonical key
C5_Witness ==
    /\ UsageReported
    /\ response.out.total_tokens > 0
    /\ Len(response.out.openclaw_models)
       < Len(get_session_data(session_files, response.period, now).models)
    /\ Len(response.out.combined_models)
       < Len(response.out.coding_models) + Len(response.out.openclaw_models)

\* the rows of coding_models, then those of openclaw_models, that normalize to key
RowsOfKey(key) ==
    SelectSeq(response.out.coding_models \o response.out.openclaw_models,
              LAMBDA r : normalize_model_name(r.name) = key)

\* row carries the sums of the rows mine
IsSumOf(row, mine) ==
    /\ row.tokens = SumInts(mine, LAMBDA r : r.tokens)
    /\ row.tokens_in = SumInts(mine, LAMBDA r : r.tokens_in)
    /\ row.tokens_out = SumInts(mine, LAMBDA r : r.tokens_out)
    /\ row.tokens_cache = SumInts(mine, LAMBDA r : r.tokens_cache)
    /\ row.messages = SumInts(mine, LAMBDA r : r.messages)
    /\ row.cost = FSum([i \in 1..Len(mine) |-> mine[i].cost], Len(mine), FZero)

\* one row per canonical key of the rows given, each the sum of its rows
OneRowPerKey(combined, rows) ==
    /\ \A i, j \in 1..Len(combined) : combined[i].name = combined[j].name => i = j
    /\ {combined[i].name : i \in 1..Len(combined)}
       = {normalize_model_name(rows[i].name) : i \in 1..Len(rows)}
    /\ \A i \in 1..Len(combined) : IsSumOf(combined[i], RowsOfKey(combined[i].name))

DescendingCost(rows) == \A i \in 1..(Len(rows) - 1) : ~FLess(rows[i].cost, rows[i + 1].cost)

\* C6: combined_models holds exactly one row per canonical model key, each
\* row's tokens, tokens_in, tokens_out, tokens_cache, cost and messages
\* being the sums over the coding_models and openclaw_models rows whose
\* name normalizes to that key; the list is sorted by cost in descending
\* order; top_models is its first min(5, length) rows.
C6_CombinedModels ==
    UsageReported =>
      /\ OneRowPerKey(response.out.combined_models,
                      response.out.coding_models \o response.out.openclaw_models)
      /\ DescendingCost(response.out.combined_models)
      /\ Len(response.out.top_models)
         = (IF Len(response.out.combined_models) < 5 THEN Len(response.out.combined_models)
            ELSE 5)
      /\ \A i \in 1..Len(response.out.top_models) :
            response.out.top_models[i] = response.out.combined_models[i]

\* more than five canonical models, one of them merged from a Claude Code
\* row and a session row of other names
C6_Witness ==
    /\ UsageReported
    /\ Len(response.out.combined_models) > 5
    /\ Len(response.out.top_models) = 5
    /\ \E i \in 1..Len(response.out.combined_models) :
          /\ response.out.combined_models[i].name = <<"c", "l", "a", "u", "d", "e", "-", "3", ".", "5", "-", "s", "o", "n", "n", "e", "t">>
          /\ response.out.combined_models[i].messages = 2
          /\ response.out.combined_models[i].tokens = 1006 + 8

\* the cost the pricing table gives a session message
TableCost(e) ==
    get_cost(SessionModel(e), Count(e.usage.d, "input", "inputTokens"),
             Count(e.usage.d, "output", "outputTokens"),
             Count(e.usage.d, "cacheRead", "cacheReadTokens"),
             Count(e.usage.d, "cacheWrite", "cacheWriteTokens"))

\* the cost of a session message: the table's when it is positive, else
\* the one the log carries
CostOrPayload(table_cost, usage) ==
    IF FPositive(table_cost) THEN table_cost ELSE _usage_cost_from_payload(usage)

MessageCost(e) == CostOrPayload(TableCost(e), e.usage.d)

\* the sum, in order, of cost(_) over the entries
CostSum(msgs, cost(_)) ==
    FSum([i \in 1..Len(msgs) |-> cost(msgs[i])], Len(msgs), FZero)

\* the session report carries the sums of cost(_) over the folded messages
\* in its model rows, its days and the sources of its days
SessionCostsAre(cost(_)) ==
    /\ \A i \in 1..Len(response.out.models) :
          response.out.models[i].cost
          = CostSum(SelectSeq(Folded, LAMBDA e : SessionModel(e) = response.out.models[i].name),
                    cost)
    /\ \A i \in 1..Len(response.out.contributions) :
          /\ response.out.contributions[i].totals.cost
             = FRound(CostSum(SelectSeq(Folded, LAMBDA e :
                                  DateOf(e.ts) = response.out.contributions[i].date), cost),
                      USD_MICRO)
          /\ \A k \in 1..Len(response.out.contributions[i].sources) :
                response.out.contributions[i].sources[k].cost
                = CostSum(SelectSeq(Folded, LAMBDA e :
                              /\ DateOf(e.ts) = response.out.contributions[i].date
                              /\ SessionModel(e)
                                 = response.out.contributions[i].sources[k].modelId),
                          cost)

\* a coding-tool row of a model without price record costs 0.0 and shows
\* its tokens
UnpricedCodingRowsFree ==
    \A i \in 1..Len(response.out.coding_models) :
        Resolve(response.out.coding_models[i].name) = NONE
        => /\ response.out.coding_models[i].cost = FZero
           /\ response.out.coding_models[i].tokens > 0

\* C7 (as the code has it): the cost of a coding-tool entry is derived from
\* the pricing table alone, 0.0 when its model has no price record, its
\* tokens still shown; the cost of a session message is the pricing table's
\* when that is positive, and otherwise the cost the log carries (cost or
\* totalCost of the usage), 0.0 when it carries none.
C7_CostSources ==
    /\ SessionReported => SessionCostsAre(MessageCost)
    /\ UsageReported => UnpricedCodingRowsFree

\* a session row and a coding-tool row of the model without price record:
\* the session row costs what its message carries, the coding row nothing
C7_Witness ==
    /\ UsageReported
    /\ \E i \in 1..Len(response.out.openclaw_models) :
          /\ response.out.openclaw_models[i].name = <<"m", "y", "s", "t", "e", "r", "y">>
          /\ response.out.openclaw_models[i].cost = FLit(1, 10)
    /\ \E i \in 1..Len(response.out.coding_models) :
          /\ response.out.coding_models[i].name = <<"m", "y", "s", "t", "e", "r", "y">>
          /\ response.out.coding_models[i].cost = FZero
          /\ response.out.coding_models[i].tokens = 5

\* C7 as stated: cost is derived from the pricing table alone, also for
\* session messages; a cost figure carried in the log is never used.
C7_TableAlone ==
    /\ SessionReported => SessionCostsAre(TableCost)
    /\ UsageReported => UnpricedCodingRowsFree

(***************************************************************************)
(* Properties of the period functions.                                     *)
(***************************************************************************)
Today == DateOf(now)
\* the day of the month of today, from 1
DayOfMonth == ((Today - 1) % DAYS_PER_MONTH) + 1

\* the arguments that select the days first..last
RangeArgs(first, last) == <<<<"-", "-", "s", "i", "n", "c", "e">>, strftime(first), <<"-", "-", "u", "n", "t", "i", "l">>, strftime(last)>>

\* the day count each period string of PERIODS stands for
EXPECTED_DAYS ==
    {<<<<"t", "o", "d", "a", "y">>, 1>>, <<<<"3", "d", "a", "y", "s">>, 3>>, <<<<"w", "e", "e", "k">>, 7>>, <<<<"1", "4", "d", "a", "y", "s">>, 14>>, <<<<"3", "0">>, 30>>,
     <<<<"1">>, 1>>, <<<<"2">>, 2>>, <<<<"0">>, 1>>, <<<<"-", "5">>, 1>>, <<<<" ", "7", " ">>, 7>>, <<<<"+", "3">>, 3>>, <<<<"1", "_", "0">>, 10>>,
     <<<<"b", "o", "g", "u", "s">>, 1>>, <<<<>>, 1>>, <<<<"3", "D", "a", "y", "s">>, 1>>, <<<<"9", "9", "9", "9">>, 9999>>}

ExpectedDays(period) == (CHOOSE e \in EXPECTED_DAYS : e[1] = period)[2]

\* C11: for every period string other than "month", get_session_data takes
\* the N-day path with the day count the string stands for (max(1, n) for an
\* integer n, the table's value for a name, 1 for anything else) and returns
\* a report, and period_to_range_args selects the same number of days ending
\* today; neither fails.
C11_DayCounts ==
    /\ (response.op = "get_session_data" /\ response.period # <<"m", "o", "n", "t", "h">>)
          => /\ response.call = <<"get_usage_for_days", ExpectedDays(response.period)>>
             /\ ~response.out.raised
    /\ (response.op = "period_to_range_args" /\ response.period # <<"m", "o", "n", "t", "h">>)
          => response.out = IF ExpectedDays(response.period) = 1 THEN <<<<"-", "-", "t", "o", "d", "a", "y">>>>
                            ELSE RangeArgs(Today - (ExpectedDays(response.period) - 1), Today)

\* C12: "month" yields the range from the first day of the current month
\* through today, which is the rolling 30-day range exactly when today is the
\* 30th day of the month; "week" yields the 7 days ending today.
C12_MonthAndWeek ==
    response.op = "period_to_range_args" =>
        /\ response.period = <<"m", "o", "n", "t", "h">> =>
              /\ response.out = RangeArgs(Today - (DayOfMonth - 1), Today)
              /\ (response.out = RangeArgs(Today - 29, Today)) <=> (DayOfMonth = 30)
        /\ response.period = <<"w", "e", "e", "k">> => response.out = RangeArgs(Today - 6, Today)

\* the arguments of "month" on the 30th day of a month, equal to those of "30"
C12_Witness ==
    /\ response.op = "period_to_range_args"
    /\ response.period = <<"m", "o", "n", "t", "h">>
    /\ DayOfMonth = 30
    /\ response.out = RangeArgs(Today - 29, Today)
    /\ response.out = period_to_range_args(<<"3", "0">>, now)

\* C12 as stated: on every date the range of "month" differs from the
\* rolling 30-day range.
C12_AlwaysDistinct ==
    response.op = "period_to_range_args" =>
        /\ response.period = <<"m", "o", "n", "t", "h">> =>
              /\ response.out = RangeArgs(Today - (DayOfMonth - 1), Today)
              /\ response.out # RangeArgs(Today - 29, Today)
        /\ response.period = <<"w", "e", "e", "k">> => response.out = RangeArgs(Today - 6, Today)

(***************************************************************************)
(* Properties of the windows of compute_usage.                             *)
(***************************************************************************)
\* the tokens by_tool reports for the tool, 0 when it has no entry
ToolTokens(by_tool, name) ==
    IF \E i \in 1..Len(by_tool) : by_tool[i][1] = name
    THEN by_tool[CHOOSE i \in 1..Len(by_tool) : by_tool[i][1] = name][2].tokens
    ELSE 0

\* the records of the first file that are stamped within lo..hi
StampedIn(files, lo, hi) ==
    IF files = <<>> THEN 0
    ELSE Cardinality({i \in 1..Len(files[1].lines) :
                        lo <= files[1].lines[i].ts /\ files[1].lines[i].ts <= hi})

\* local midnight N - 1 days ago, N being the day count of the period
WindowStart(period) == Midnight(now) - (ExpectedDays(period) - 1) * TICKS_PER_DAY
\* the last instant of the current local day
EndOfToday == Midnight(now) + TICKS_PER_DAY - 1

WindowReported ==
    /\ response.op = "compute_usage"
    /\ response.period \in WINDOW_PERIODS
    /\ ~response.out.raised

\* C13: for "today" and numeric-day periods both source families start at
\* local midnight N - 1 days ago; the session-log source admits the messages
\* up to and including the current instant, the coding-tool parsers admit
\* the entries up to the end of the current local day, later today included.
C13_Windows ==
    WindowReported =>
        /\ ToolTokens(response.out.by_tool, <<"o", "p", "e", "n", "c", "l", "a", "w">>)
             = StampedIn(session_files, WindowStart(response.period), now)
        /\ ToolTokens(response.out.by_tool, <<"c", "o", "d", "e", "x">>)
             = 2 * StampedIn(codex_files, WindowStart(response.period), EndOfToday)

\* a report that counts the session message of the current instant and the
\* Codex event of later today, but not the session message of later today
C13_Witness ==
    /\ WindowReported
    /\ session_files # <<>>
    /\ \E i \in 1..Len(session_files[1].lines) : session_files[1].lines[i].ts = START
    /\ \E i \in 1..Len(session_files[1].lines) : session_files[1].lines[i].ts = LATER_TODAY
    /\ codex_files # <<>> /\ codex_files[1].lines[1].ts = LATER_TODAY
    /\ ToolTokens(response.out.by_tool, <<"o", "p", "e", "n", "c", "l", "a", "w">>) = 1
    /\ ToolTokens(response.out.by_tool, <<"c", "o", "d", "e", "x">>) = 2

\* C13 as stated: both source families use the window from local midnight
\* N - 1 days ago through the current instant, so that an entry of later
\* today is admitted by neither.
C13_SameWindow ==
    WindowReported =>
        /\ ToolTokens(response.out.by_tool, <<"o", "p", "e", "n", "c", "l", "a", "w">>)
             = StampedIn(session_files, WindowStart(response.period), now)
        /\ ToolTokens(response.out.by_tool, <<"c", "o", "d", "e", "x">>)
             = 2 * StampedIn(codex_files, WindowStart(response.period), now)

(***************************************************************************)
(* Properties of get_cost.                                                 *)
(***************************************************************************)
\* the rate k of the price record p, d when the record has none
RateOr(p, k, d) == IF k \in DOMAIN p THEN p[k] ELSE d

\* (input x input rate + output x output rate + cache read x cache-read rate
\* + cache write x cache-write rate) / 1,000,000 in float arithmetic
CostFormula(tokens, input_rate, output_rate, cache_read_rate, cache_write_rate) ==
    FDivInt(FAdd(FAdd(FAdd(FMul(FromInt(tokens[1]), input_rate),
                           FMul(FromInt(tokens[2]), output_rate)),
                      FMul(FromInt(tokens[3]), cache_read_rate)),
                 FMul(FromInt(tokens[4]), cache_write_rate)),
            1000000)

\* the formula at the rates of the record p, an absent cache-read rate being
\* 0.1 x the input rate and an absent cache-write rate the input rate
CostAtRecord(tokens, p) ==
    CostFormula(tokens, p.input, p.output,
                RateOr(p, "cache_read", FMul(p.input, FLit(1, 10))),
                RateOr(p, "cache_write", p.input))

\* C14: for a model that is a key of the pricing table, get_cost returns
\* (input x input rate + output x output rate + cache read x cache-read rate
\* + cache write x cache-write rate) / 1,000,000, with the cache-read rate
\* defaulting to 0.1 x input rate and the cache-write rate to the input rate;
\* cache writes are charged at the cache-write rate only.
C14_CostFormula ==
    (response.op = "get_cost" /\ response.model \in DOMAIN pricing)
        => response.out = CostAtRecord(response.tokens, pricing[response.model])

\* the cost of one cache-write token of a model that has a cache-write rate
\* of its own, and of one cache-read token of a model that has no cache-read
\* rate
C14_Witness ==
    /\ response.op = "get_cost"
    /\ \/ /\ response.model = <<"c", "l", "a", "u", "d", "e", "-", "3", ".", "5", "-", "s", "o", "n", "n", "e", "t">>
          /\ response.tokens = <<0, 0, 0, 1>>
          /\ response.out = FDivInt(FLit(375, 100), 1000000)
       \/ /\ response.model = <<"g", "p", "t", "-", "4", "o", "-", "m", "i", "n", "i">>
          /\ response.tokens = <<0, 0, 1, 0>>
          /\ response.out = FDivInt(FMul(FLit(15, 100), FLit(1, 10)), 1000000)

\* the key of the pricing table the model is a spelling of
KeyOf(model) == (CHOOSE v \in VARIANTS : v[1] = model)[2]

C16_KimiSpellings ==
    (response.op = "get_cost" /\ response.model \in KIMI_SPELLINGS)
        => /\ response.out = CostAtRecord(response.tokens, pricing[<<"k", "i", "m", "i", "-", "k", "2", ".", "5">>])
           /\ FPositive(response.out)

\* the cost of MoonshotAI/KIMI_K2P5 and of k2.5, priced as kimi-k2.5
C16_Witness ==
    /\ response.op = "get_cost"
    /\ response.model \in {<<"M", "o", "o", "n", "s", "h", "o", "t", "A", "I", "/", "K", "I", "M", "I", "_", "K", "2", "P", "5">>, <<"k", "2", ".", "5">>, <<"v", "o", "l", "-", "e", "n", "g", "i", "n", "e", "/", "k", "i", "m", "i", "-", "2", ".", "5">>}
    /\ response.tokens = <<1000, 2000, 0, 0>>
    /\ FPositive(response.out)
    /\ response.out = get_cost(<<"k", "i", "m", "i", "-", "k", "2", ".", "5">>, 1000, 2000, 0, 0)

(***************************************************************************)
(* Properties of normalize_model_name.                                     *)
(***************************************************************************)
\* the key of each spelling on its own
KEY_OF_STEM == [s \in {t[1] : t \in STEMS} |-> normalize_model_name(s)]

\* the key of each model: that of the spelling equal to the model's name
ModelKey(model) == IF model \in DOMAIN KEY_OF_STEM THEN KEY_OF_STEM[model] ELSE model

\* C17: identifiers that differ only in the provider prefix chain, in case
\* and punctuation, in a trailing date stamp or release-noise suffix or in a
\* known alias spelling have the same key: the key of prefix + "/" + m is
\* the key of m, the key does not change with the trailing noise, and every
\* spelling of Kimi K2.5 has the key "kimi-k2.5".
C17_SameKey ==
    response.op = "normalize_model_name"
        => /\ response.out = normalize_model_name(response.stem \o response.suffix)
           /\ response.out = KEY_OF_STEM[response.stem]
           /\ response.out = ModelKey(response.model)
           /\ response.stem \in KIMI_STEMS => response.out = <<"k", "i", "m", "i", "-", "k", "2", ".", "5">>

\* C18: identifiers of distinct models never have the same key.
C18_NoCollision ==
    response.op = "normalize_model_name"
        => \A s \in STEMS : KEY_OF_STEM[s[1]] = response.out => s[2] = response.model

(***************************************************************************)
(* Properties of the parsers' entries and of the daily series.             *)
(***************************************************************************)
\* C19: every entry a parser emits has non-negative input, output,
\* cacheRead, cacheWrite and reasoning counts; the fresh input of a Codex
\* entry, input_tokens minus cached_input_tokens, is never negative.
C19_NonNegativeCounts ==
    response.op = "collect"
        => \A i \in 1..Len(response.out) :
               /\ response.out[i].input >= 0
               /\ response.out[i].output >= 0
               /\ response.out[i].cacheRead >= 0
               /\ response.out[i].cacheWrite >= 0
               /\ response.out[i].reasoning >= 0

\* no two elements of sources are of the same model
OnePerModel(sources) ==
    \A i \in 1..Len(sources), j \in 1..Len(sources) :
        sources[i].modelId = sources[j].modelId => i = j

\* C20: in every day of the daily series of the session logs and of that of
\* the coding tools, sources holds at most one element per model.
C20_OneSourcePerModel ==
    (response.op = "compute_stats" /\ ~response.out.raised)
        => /\ \A i \in 1..Len(response.out.session) : OnePerModel(response.out.session[i].sources)
           /\ \A i \in 1..Len(response.out.coding) : OnePerModel(response.out.coding[i].sources)

(***************************************************************************)
(* Properties of compute_stats.                                            *)
(***************************************************************************)
StatsReported == response.op = "compute_stats" /\ ~response.out.raised

\* the dates of a series
DatesOf(series) == {series[i].date : i \in 1..Len(series)}

\* the records of the date in a series
RecordsOf(series, date) == {series[i] : i \in {j \in 1..Len(series) : series[j].date = date}}

\* m is the sum of the records o and c of one date
IsMergeOf(m, o, c) ==
    /\ m.totals.tokens = o.totals.tokens + c.totals.tokens
    /\ m.totals.cost = FAdd(o.totals.cost, c.totals.cost)
    /\ m.totals.messages = o.totals.messages + c.totals.messages
    /\ \A k \in {"input", "output", "cacheRead", "cacheWrite", "reasoning"} :
          m.tokenBreakdown[k] = o.tokenBreakdown[k] + c.tokenBreakdown[k]
    /\ m.sources = o.sources \o c.sources

\* the record m of merged is what the two series say of its date
MergedAsClaimed(m, session, coding) ==
    IF m.date \in DatesOf(session) /\ m.date \in DatesOf(coding)
    THEN \E o \in RecordsOf(session, m.date), c \in RecordsOf(coding, m.date) : IsMergeOf(m, o, c)
    ELSE m \in RecordsOf(session, m.date) \cup RecordsOf(coding, m.date)

\* the sums over merged, the costs added from the left
SummaryAsClaimed(summary, merged) ==
    /\ summary.totalTokens = SumInts(merged, LAMBDA d : d.totals.tokens)
    /\ summary.totalCost = FSum([i \in 1..Len(merged) |-> merged[i].totals.cost], Len(merged), FZero)
    /\ summary.activeDays = Len(merged)

\* merged holds one record per date of either series, in ascending order
OnePerDate(merged, session, coding) ==
    /\ DatesOf(merged) = DatesOf(session) \cup DatesOf(coding)
    /\ \A i \in 1..Len(merged), j \in 1..Len(merged) : i < j => merged[i].date < merged[j].date
    /\ \A i \in 1..Len(merged) : MergedAsClaimed(merged[i], session, coding)

\* C21: the merged series of compute_stats holds exactly one record per
\* date of the union of the two series, in ascending date order; the record
\* of a date of both series holds the sums of the totals and of the token
\* breakdown and the concatenation of the sources; the record of a date of
\* one series is that series' record; the summary holds the sums and the
\* count over the merged records.
C21_MergedSeries ==
    StatsReported
        => /\ OnePerDate(response.out.contributions, response.out.session, response.out.coding)
           /\ SummaryAsClaimed(response.out.summary, response.out.contributions)

\* a date of both series with sources of both, next to a date of one series
C21_Witness ==
    /\ StatsReported
    /\ Len(response.out.contributions) = 2
    /\ \E i \in 1..2 :
          /\ response.out.contributions[i].date \in DatesOf(response.out.session) \cap DatesOf(response.out.coding)
          /\ Len(response.out.contributions[i].sources) = 2
          /\ response.out.contributions[i].totals.messages = 2
    /\ \E i \in 1..2 :
          response.out.contributions[i].date \notin DatesOf(response.out.session) \cap DatesOf(response.out.coding)
    /\ response.out.summary.activeDays = 2

\* C30: normalize_model_name is idempotent: the key of a key is the key.
C30_Idempotent ==
    response.op = "normalize_model_name"
        => normalize_model_name(response.out) = response.out

(***************************************************************************)
(* Properties of CodingToolsUsageTracker.                                  *)
(***************************************************************************)
\* the output of the parser registered under the name, nothing for a name
\* that is not registered
OutputOf(name) ==
    IF name = "opencode"
    THEN OpenCodeCollect("opencode" \in roots, opencode_db, response.since, response.until)
    ELSE IF name = "codex"
    THEN CodexCollect("codex" \in roots, codex_files, response.since, response.until)
    ELSE IF name = "claude"
    THEN ClaudeCollect("claude" \in roots, claude_files, response.since, response.until)
    ELSE <<>>

\* the outputs of the named parsers, one after the other
RECURSIVE OutputsOf(_)
OutputsOf(names) == IF names = <<>> THEN <<>> ELSE OutputOf(Head(names)) \o OutputsOf(Tail(names))

\* C27: after a call of collect the tracker's entries are the outputs, in
\* order, of the parsers the call selected (all of the registry when sources
\* is absent or empty), whatever the earlier calls collected; a name that is
\* not registered contributes nothing; to_json reports the entries and their
\* number as the total
C27_EntriesOfLastCall ==
    /\ response.op = "tracker_collect" =>
           entries = IF ~response.sources.given \/ Len(response.sources.names) = 0
                     THEN TrackerCollect(roots, codex_files, claude_files, opencode_db,
                                         response.since, response.until)
                     ELSE OutputsOf(response.sources.names)
    /\ response.op = "to_json" =>
           response.out.entries = entries /\ response.out.total = Len(entries)

\* a call that selects the Claude parser alone, with a name given, while
\* Codex has records an earlier call of all parsers would have collected
C27_Witness ==
    /\ response.op = "tracker_collect"
    /\ response.sources = Sources(<<"claude">>)
    /\ Len(entries) = 1
    /\ CodexCollect("codex" \in roots, codex_files, 0, 0) # <<>>

(***************************************************************************)
(* Properties of CodexParser.collect.                                      *)
(***************************************************************************)
NamesModel(line) ==
    line.json = "object" /\ line.type = "turn_context" /\ line.payload.model # <<>>
NamesProvider(line) ==
    line.json = "object" /\ line.type = "session_meta" /\ line.payload.model_provider # <<>>
IsTokenCount(line) ==
    line.json = "object" /\ line.type = "event_msg" /\ line.payload.type = "token_count"

\* the model named by the last turn_context before line k of the file
RECURSIVE ModelBefore(_, _)
ModelBefore(lines, k) ==
    IF k = 1 THEN <<"g", "p", "t", "-", "5", ".", "3", "-", "c", "o", "d", "e", "x">>
    ELSE IF NamesModel(lines[k - 1]) THEN lines[k - 1].payload.model
    ELSE ModelBefore(lines, k - 1)

\* the provider set by the last line before line k of the file that sets
\* one: a session_meta naming it, or a turn_context whose model tells it
RECURSIVE ProviderBefore(_, _)
ProviderBefore(lines, k) ==
    IF k = 1 THEN <<"o", "p", "e", "n", "a", "i">>
    ELSE IF NamesProvider(lines[k - 1]) THEN lines[k - 1].payload.model_provider
    ELSE IF NamesModel(lines[k - 1]) /\ Codex_infer_provider(lines[k - 1].payload.model, <<>>) # <<>>
    THEN Codex_infer_provider(lines[k - 1].payload.model, <<>>)
    ELSE ProviderBefore(lines, k - 1)

\* the model and provider of the token_count events among the first n lines
RECURSIVE ContextsOfLines(_, _)
ContextsOfLines(lines, n) ==
    IF n = 0 THEN <<>>
    ELSE ContextsOfLines(lines, n - 1)
         \o (IF IsTokenCount(lines[n])
             THEN <<[model |-> ModelBefore(lines, n), provider |-> ProviderBefore(lines, n)]>>
             ELSE <<>>)

RECURSIVE ContextsOfFiles(_, _)
ContextsOfFiles(files, n) ==
    IF n = 0 THEN <<>>
    ELSE ContextsOfFiles(files, n - 1) \o ContextsOfLines(files[n].lines, Len(files[n].lines))

\* C28: the entry of each token_count event carries the model of the last
\* turn_context before it in its own session file ("gpt-5.3-codex" when
\* there is none) and the provider set last before it in that file, by a
\* session_meta naming one or a turn_context whose model tells one ("openai"
\* when there is none); no file inherits from the file before it.  Every
\* event of the files is in range and carries tokens.
C28_ModelAndProviderPerFile ==
    response.op = "collect" =>
        [i \in 1..Len(response.out) |->
            [model |-> response.out[i].model, provider |-> response.out[i].provider]]
        = ContextsOfFiles(codex_files, Len(codex_files))

\* two files: the first names a Claude model before its event, the second
\* has an event alone
C28_Witness ==
    /\ response.op = "collect"
    /\ Len(response.out) = 2
    /\ response.out[1].provider = <<"a", "n", "t", "h", "r", "o", "p", "i", "c">>
    /\ response.out[2].model = <<"g", "p", "t", "-", "5", ".", "3", "-", "c", "o", "d", "e", "x">>
    /\ Len(codex_files) = 2

\* a session_meta names the provider, a later turn_context names a model
\* that tells none, and the event after them carries both
C28_WitnessMeta ==
    /\ response.op = "collect"
    /\ Len(response.out) = 1
    /\ response.out[1].provider = <<"a", "z", "u", "r", "e">>
    /\ response.out[1].model = <<"m", "y", "s", "t", "e", "r", "y">>

(***************************************************************************)
(* Properties of ClaudeParser.collect.                                     *)
(***************************************************************************)
\* the records of all transcripts
RECURSIVE AllLines(_, _)
AllLines(files, n) == IF n = 0 THEN <<>> ELSE AllLines(files, n - 1) \o files[n].lines

\* the record is an assistant message with usage, a timestamp in the range
\* the request in progress asked for, and tokens
ClaudeEligible(line) ==
    /\ line.json = "object"
    /\ line.msg.kind = "map"
    /\ line.msg.role = "assistant"
    /\ line.msg.usage.kind = "map"
    /\ DOMAIN line.msg.usage.d # {}
    /\ line.ts # 0
    /\ _in_range(line.ts, response.since, response.until)
    /\ _i(Get2(line.msg.usage.d, "input_tokens", "input"))
       + _i(Get2(line.msg.usage.d, "output_tokens", "output"))
       + _i(Get2(line.msg.usage.d, "cache_read_input_tokens", "cache_read_tokens"))
       + _i(Get2(line.msg.usage.d, "cache_creation_input_tokens", "cache_write_tokens")) # 0

EligibleIds(lines) ==
    {lines[i].msg.id : i \in {j \in 1..Len(lines) : ClaudeEligible(lines[j]) /\ lines[j].msg.id # 0}}
EligibleWithoutId(lines) ==
    {i \in 1..Len(lines) : ClaudeEligible(lines[i]) /\ lines[i].msg.id = 0}

\* C24: one pass of ClaudeParser.collect returns exactly one entry for every
\* message id that has an eligible record, wherever the records of the
\* message stand in the transcripts, and one entry for every eligible record
\* that has no id
C24_OneEntryPerMessage ==
    response.op = "collect" =>
        Len(response.out) = Cardinality(EligibleIds(AllLines(claude_files, Len(claude_files))))
                            + Cardinality(EligibleWithoutId(AllLines(claude_files, Len(claude_files))))

(***************************************************************************)
(* Properties of the order of _resolve_pricing.                            *)
(***************************************************************************)
\* the key is a key of the pricing table
DirectHit(k) == k # <<>> /\ k \in DOMAIN pricing
\* the key is an alias whose target is a key of the pricing table
AliasHit(ak) == ak # <<>> /\ ak \in DOMAIN aliases /\ DirectHit(aliases[ak])

\* the alias-key variants of a name and its base, in the order tried
AliasKeysOf(raw, base) ==
    Variants(raw) \o Variants(base)
    \o Variants(_normalize_alias_key(raw)) \o Variants(_normalize_alias_key(base))
    \o Variants(_normalize_key(raw)) \o Variants(_normalize_key(base))

\* the normalised and expanded forms of a name and its base, in the order
\* tried
NormalizedOf(raw, base) == Expanded(_normalize_key(raw)) \o Expanded(_normalize_key(base))

FirstDirect(keys) == keys[MinOf({i \in 1..Len(keys) : DirectHit(keys[i])})]
FirstAlias(keys) == keys[MinOf({i \in 1..Len(keys) : AliasHit(keys[i])})]

\* the record the stages give, stage by stage
StagedRecord(raw, base, alias_keys, normalized) ==
    IF DirectHit(raw) THEN pricing[raw]
    ELSE IF DirectHit(base) THEN pricing[base]
    ELSE IF \E i \in 1..Len(alias_keys) : AliasHit(alias_keys[i])
    THEN pricing[aliases[FirstAlias(alias_keys)]]
    ELSE IF \E i \in 1..Len(normalized) : DirectHit(normalized[i])
    THEN pricing[FirstDirect(normalized)]
    ELSE NONE

\* C25: _resolve_pricing returns the record of the raw name when it is a
\* key of the pricing table, else that of its last /-segment when that is a
\* key, else that of the target of the first alias-key variant whose target
\* is a key, else that of the first normalised or expanded form that is a
\* key, and not-found only when none of these exists
C25_FirstHitInOrder ==
    response.op = "_resolve_pricing" =>
        response.out = StagedRecord(response.model, BaseOf(response.model),
                                    AliasKeysOf(response.model, BaseOf(response.model)),
                                    NormalizedOf(response.model, BaseOf(response.model)))

\* an alias hit wins over a normalised match: sonic-1-latest is an alias of
\* gpt-4o-mini and, with its suffix stripped, the key sonic-1
C25_Witness ==
    /\ response.op = "_resolve_pricing"
    /\ response.model = <<"s", "o", "n", "i", "c", "-", "1", "-", "l", "a", "t", "e", "s", "t">>
    /\ response.out = pricing[<<"g", "p", "t", "-", "4", "o", "-", "m", "i", "n", "i">>]
    /\ DirectHit(_strip_common_suffixes(_normalize_key(response.model)))

\* an exact key wins over an alias: sonic-2-latest is a key and an alias
C25_WitnessExact ==
    /\ response.op = "_resolve_pricing"
    /\ response.model = <<"s", "o", "n", "i", "c", "-", "2", "-", "l", "a", "t", "e", "s", "t">>
    /\ response.out = pricing[response.model]
    /\ AliasHit(response.model)

\* the raw name wins over its base: azure/gpt-4o-mini and gpt-4o-mini are keys
C25_WitnessRaw ==
    /\ response.op = "_resolve_pricing"
    /\ response.model = <<"a", "z", "u", "r", "e", "/", "g", "p", "t", "-", "4", "o", "-", "m", "i", "n", "i">>
    /\ response.out # pricing[<<"g", "p", "t", "-", "4", "o", "-", "m", "i", "n", "i">>]
    /\ DirectHit(BaseOf(response.model))

\* not-found: no candidate of any stage is a key
C25_WitnessNotFound ==
    /\ response.op = "_resolve_pricing"
    /\ response.model = <<"a", "c", "m", "e", "/", "m", "y", "s", "t", "e", "r", "y", "-", "l", "a", "t", "e", "s", "t">>
    /\ response.out = NONE

(***************************************************************************)
(* Properties of the cost of an entry in the two views.                    *)
(***************************************************************************)
\* C23: for every entry of the coding tools, the cost parse_entries_json
\* adds to the rows of the entry's app and model is the cost the parser
\* put into the entry, which the calendar view sums
C23_UsageCostIsEntryCost ==
    response.op = "collect" =>
        \A i \in 1..Len(response.out) :
            FiguresOfEntry(response.out[i]).cost = response.out[i].cost

(***************************************************************************)
(* Properties of the resolution cache.                                     *)
(***************************************************************************)
\* every key of the cache maps to the result of a fresh lookup
CacheIsFresh == \A model \in DOMAIN resolved_cache : resolved_cache[model] = _resolve_pricing(model)

\* C26: however the calls of _resolve_pricing on one database interleave,
\* every key of the resolution cache maps to the result of a lookup with an
\* empty cache (a record or not-found, which is cached too), and every call
\* returns that result
C26_CacheAndCallsAgree ==
    /\ CacheIsFresh
    /\ response.op = "_resolve_pricing" => response.out = _resolve_pricing(response.model)

(***************************************************************************)
(* Properties of get_cached_or_fetch.                                      *)
(***************************************************************************)
\* the aggregate of the key computed from the logs as they are
FromLogs(key) ==
    compute_usage(session_files, roots, codex_files, claude_files, opencode_db, key[2], now)

\* the step starts the computation of a key by the request c
StartsFetch(c) == requests[c] = IDLE /\ requests'[c] # IDLE
\* the step returns a response to the client
Returns == response = IDLE /\ response' # IDLE

\* C22: the result of every request reflects the logs as they are when the
\* request is made; a request made after the logs changed never returns the
\* aggregate an earlier request computed
C22_NeverStale ==
    (response.op = "api" /\ response.cached) => response.data = FromLogs(response.key)

\* C22, amended: a request is answered from the cache exactly when the cache
\* holds an entry of its key stored by a request that began less than
\* CACHE_TTL seconds before it, and then with that entry's aggregate as it
\* is; otherwise it computes the aggregate from the logs as they are when it
\* fetches, returns it and stores it under the time at which it began
C22_RecomputedUnlessFresh ==
    [][/\ \A c \in CALLERS :
            /\ StartsFetch(c) =>
                   \/ requests'[c].key \notin DOMAIN _cache
                   \/ clock - _cache[requests'[c].key].cached_time >= CACHE_TTL
            /\ (requests[c].op = "fetch" /\ requests'[c].op = "store") =>
                   requests'[c].data = FromLogs(requests[c].key)
       /\ (Returns /\ response'.cached) =>
              /\ response'.key \in DOMAIN _cache
              /\ clock - _cache[response'.key].cached_time < CACHE_TTL
              /\ response'.data = _cache[response'.key].cached_data
       /\ (Returns /\ ~response'.cached) =>
              \E c \in CALLERS :
                  /\ requests[c].op = "store"
                  /\ requests'[c] = IDLE
                  /\ response'.data = requests[c].data
                  /\ _cache'[requests[c].key] = [cached_time |-> requests[c].now,
                                                 cached_data |-> requests[c].data]
      ]_vars

\* a request made after Codex wrote is answered with the aggregate computed
\* before it wrote
C22_Witness ==
    /\ response.op = "api"
    /\ response.cached
    /\ codex_files # <<>>
    /\ response.data # FromLogs(response.key)

\* C29: a request starts to compute a key only while no other request is
\* computing the same key, and only when the cache has no entry of the key
\* stored by a request that began less than CACHE_TTL seconds ago
C29_SingleFlight ==
    [][\A c \in CALLERS :
           StartsFetch(c) =>
               /\ \A d \in CALLERS \ {c} :
                      requests[d] = IDLE \/ requests[d].key # requests'[c].key
               /\ \/ requests'[c].key \notin DOMAIN _cache
                  \/ clock - _cache[requests'[c].key].cached_time >= CACHE_TTL
      ]_vars

====
